---- MODULE Spec2Model ----
(***************************************************************************)
(* Event-sourced enrollment aggregate: the in-memory event store, the      *)
(* repositories built on it, the aggregate functions and the command       *)
(* handler.  Asynchronous methods are split at their await points; every   *)
(* action is one synchronous run between two await points.                 *)
(***************************************************************************)
EXTENDS Integers, Sequences, FiniteSets, TLC

\* ---------------------------------------------------------------- bounds
MaxEvents == 3
MaxBatch == 2
MaxClock == 1
MaxRecLen == 3

\* the longest identifier among the arguments of the pure functions
MaxIdLen == 2

\* the semesters given to the pure functions lie within this many years of
\* the current year
YearSpan == 3

\* ------------------------------------------------------------- universes
Procs == {"p1", "p2"}
StudentIds == {"ST001", "ST002"}
CourseIds == {"CS101"}
Semesters == {"2025-spring"}
Identities == [studentId : StudentIds, courseId : CourseIds, semester : Semesters]
\* the identities whose streams the direct callers of the store work on
StoreIdentities == {id \in Identities : id.studentId = "ST001"}
EventTypes == {"EnrollmentRequested"}
SnapshotIntervals == {2}

\* null / undefined
None == [type |-> "none"]

VARIABLES
  events,      \* InMemoryEventStore.events    : streamId -> stored events
  snapshots,   \* InMemoryEventStore.snapshots : key -> snapshot
  metadata,    \* InMemoryEventStore.metadata  : streamId -> metadata
  config,      \* the current configuration (getCurrentConfig)
  now,         \* the wall clock read by new Date()
  pc,          \* position of every caller
  loc,         \* locals of the call a caller is in (kept after it returns)
  res,         \* the result the caller's last call returned
  recEvents,   \* the argument of reconstructEnrollmentFromEvents
  recResult,   \* the result of reconstructEnrollmentFromEvents(recEvents)
  repoKind,    \* which IEnrollmentRepository the handlers were constructed with
  enrollments, \* InMemoryEnrollmentRepository.enrollments : aggregateId -> state
  repoEvents,  \* InMemoryEnrollmentRepository.events : aggregateId -> events
  published,   \* MockEventPublisher.publishedEvents
  notified,    \* MockNotificationService.sentNotifications
  students,    \* MockStudentRepository.students
  courses,     \* MockCourseRepository.courses
  services,    \* which IEventPublisher / INotificationService the handler has
  fnArgs,      \* the arguments of a call of a pure function
  fnResult     \* what the call with fnArgs returned

recVars == <<recEvents, recResult, fnArgs, fnResult>>

repoVars == <<repoKind, enrollments, repoEvents>>

serviceVars == <<published, notified, students, courses, services>>

otherVars == <<recVars, repoVars, serviceVars>>

vars == <<events, snapshots, metadata, config, now, pc, loc, res, recEvents, recResult,
          repoKind, enrollments, repoEvents, published, notified, students, courses,
          services, fnArgs, fnResult>>

\* ------------------------------------------------------------ Result type
Ok(d) == [success |-> TRUE, data |-> d]
Err(e) == [success |-> FALSE, error |-> e]

createConcurrencyError_swapped(expectedVersion, actualVersion, entityId) ==
  [type |-> "ConcurrencyError", code |-> "CONCURRENCY_ERROR",
   expectedVersion |-> actualVersion, actualVersion |-> expectedVersion,
   entityId |-> entityId]

createConcurrencyError(expectedVersion, actualVersion, entityId) ==
  [type |-> "ConcurrencyError", code |-> "CONCURRENCY_ERROR",
   expectedVersion |-> expectedVersion, actualVersion |-> actualVersion,
   entityId |-> entityId]

createValidationError(code) ==
  [type |-> "ValidationError", code |-> code]

createBusinessRuleError(rule, code) ==
  [type |-> "BusinessRuleError", code |-> code, rule |-> rule]

createNotFoundError(entity, id) ==
  [type |-> "NotFoundError", code |-> "NOT_FOUND", entity |-> entity, id |-> id]

\* { ...a, ...b }
Merge(a, b) ==
  [k \in DOMAIN a \cup DOMAIN b |-> IF k \in DOMAIN b THEN b[k] ELSE a[k]]

\* -------------------------------------------------------------- utilities
Max(S) == CHOOSE x \in S : \A y \in S : y <= x

Range(seq) == {seq[i] : i \in 1..Len(seq)}

IsPrefix(a, b) == Len(a) <= Len(b) /\ \A i \in 1..Len(a) : a[i] = b[i]

\* Array.prototype.sort with comparator a.version - b.version (stable):
\* insertion of each element after the last one whose version is <= its own.
RECURSIVE SortByVersion(_)
SortByVersion(seq) ==
  IF seq = <<>> THEN <<>>
  ELSE LET init == SortByVersion(SubSeq(seq, 1, Len(seq) - 1))
           x == seq[Len(seq)]
           k == Cardinality({i \in 1..Len(init) : init[i].version <= x.version})
       IN SubSeq(init, 1, k) \o <<x>> \o SubSeq(init, k + 1, Len(init))

\* Array.prototype.filter
RECURSIVE Filter(_, _)
Filter(seq, fromVersion) ==
  IF seq = <<>> THEN <<>>
  ELSE LET rest == Filter(Tail(seq), fromVersion)
       IN IF Head(seq).version >= fromVersion THEN <<Head(seq)>> \o rest ELSE rest

\* ------------------------------------------------------------------ texts
\* the text whose characters are the elements of q
RECURSIVE Str(_)
Str(q) == IF q = <<>> THEN "" ELSE Head(q) \o Str(Tail(q))

\* characters of [A-Z0-9]
IdChars == {"A", "0"}

\* the texts matching /^[A-Z0-9]{1,20}$/, up to MaxIdLen characters
IdTexts == {Str(q) : q \in UNION {[1..n -> IdChars] : n \in 1..MaxIdLen}}

\* new Date().getFullYear() for every instant of the modelled clock
CurrentYear == 2025

SemesterYears == (CurrentYear - YearSpan)..(CurrentYear + YearSpan)

Digit(d) ==
  CASE d = 0 -> "0" [] d = 1 -> "1" [] d = 2 -> "2" [] d = 3 -> "3" [] d = 4 -> "4"
    [] d = 5 -> "5" [] d = 6 -> "6" [] d = 7 -> "7" [] d = 8 -> "8" [] d = 9 -> "9"

\* the four digits of a year
YearText(y) ==
  Digit(y \div 1000) \o Digit((y \div 100) % 10) \o Digit((y \div 10) % 10) \o Digit(y % 10)

Seasons == {"spring", "summer", "fall"}

\* the texts matching /^\d{4}-(spring|summer|fall)$/ with a year of SemesterYears
SemesterTexts == {YearText(y) \o "-" \o season : y \in SemesterYears, season \in Seasons}

\* ------------------------------------------------------------- stream ids
createEnrollmentStreamId_noSeparator(studentId, courseId, semester) ==
  "enrollment-" \o studentId \o courseId \o "-" \o semester

createEnrollmentStreamId(studentId, courseId, semester) ==
  "enrollment-" \o studentId \o "-" \o courseId \o "-" \o semester

\* /^enrollment-([^-]+)-([^-]+)-(.+)$/ : the first two groups hold no dash, so
\* a text has at most one match; the groups range over the texts above
parseEnrollmentStreamId(streamId) ==
  LET matches == {m \in IdTexts \X IdTexts \X (IdTexts \cup SemesterTexts) :
                    /\ Len(streamId) = 13 + Len(m[1]) + Len(m[2]) + Len(m[3])
                    /\ streamId = "enrollment-" \o m[1] \o "-" \o m[2] \o "-" \o m[3]}
  IN IF matches = {} THEN None
     ELSE LET match == CHOOSE m \in matches : TRUE
          IN [studentId |-> match[1], courseId |-> match[2], semester |-> match[3]]

StreamIdOf(id) == createEnrollmentStreamId(id.studentId, id.courseId, id.semester)

StreamIds == {StreamIdOf(id) : id \in Identities}

StoreStreamIds == {StreamIdOf(id) : id \in StoreIdentities}

\* ------------------------------------------------------------ event store
\* this.events.get(streamId) || []
StreamEvents(streamId) ==
  IF streamId \in DOMAIN events THEN events[streamId] ELSE <<>>

\* the body of getCurrentVersion on the array of the stream
MaxVersion(streamEvents) ==
  IF Len(streamEvents) = 0 THEN 0
  ELSE Max({streamEvents[i].version : i \in 1..Len(streamEvents)})

getCurrentVersion(streamId) == MaxVersion(StreamEvents(streamId))

EventsFrom_noFilter(streamEvents, fromVersion) ==
  LET sorted == SortByVersion(streamEvents)
  IN [i \in 1..Len(sorted) |-> sorted[i].event]

\* the body of getEvents on the array of the stream: filter, sort, map
EventsFrom(streamEvents, fromVersion) ==
  LET sorted == SortByVersion(Filter(streamEvents, fromVersion))
  IN [i \in 1..Len(sorted) |-> sorted[i].event]

getEvents(streamId, fromVersion) == EventsFrom(StreamEvents(streamId), fromVersion)

streamExists_hasOnly(streamId) == streamId \in DOMAIN events

streamExists(streamId) ==
  streamId \in DOMAIN events /\ Len(events[streamId]) > 0

\* the version check of append (line 56)
VersionConflict_lower(currentVersion, expectedVersion) ==
  currentVersion < expectedVersion

VersionConflict(currentVersion, expectedVersion) ==
  currentVersion # expectedVersion

\* the loop of append (lines 68-82): the i-th event (0-based) is stored with
\* version expectedVersion + i + 1, on the stored record and on the event copy
StampBatch_keep(streamId, batch, expectedVersion, t) ==
  [i \in 1..Len(batch) |->
     [streamId |-> streamId,
      version |-> expectedVersion + (i - 1) + 1,
      event |-> batch[i],
      timestamp |-> t]]

StampBatch(streamId, batch, expectedVersion, t) ==
  [i \in 1..Len(batch) |->
     [streamId |-> streamId,
      version |-> expectedVersion + (i - 1) + 1,
      event |-> [batch[i] EXCEPT !.version = expectedVersion + (i - 1) + 1],
      timestamp |-> t]]

\* the array of the stream after the pushes (lines 65, 81): the live array with
\* the stamped batch pushed at its end
AppendedStream_replace(streamEvents, stamped) == stamped

AppendedStream(streamEvents, stamped) == streamEvents \o stamped

\* updateStreamMetadata(streamId, events): the metadata map after the call
updateStreamMetadata(streamId, evs, t) ==
  IF Len(evs) = 0 THEN metadata
  ELSE LET createdAt == IF streamId \in DOMAIN metadata
                        THEN metadata[streamId].createdAt ELSE t
           m == [streamId |-> streamId,
                 eventCount |-> Len(evs),
                 firstEventVersion |-> evs[1].version,
                 lastEventVersion |-> evs[Len(evs)].version,
                 createdAt |-> createdAt,
                 lastModifiedAt |-> t]
       IN [k \in DOMAIN metadata \cup {streamId} |->
             IF k = streamId THEN m ELSE metadata[k]]

SnapshotKey_typeOnly(aggregateType, aggregateId) == <<aggregateType>>

SnapshotKey(aggregateType, aggregateId) == <<aggregateType, aggregateId>>

\* saveSnapshot(snapshot): the snapshot map after the call
saveSnapshot(snapshot, t) ==
  LET key == SnapshotKey(snapshot.aggregateType, snapshot.aggregateId)
  IN [k \in DOMAIN snapshots \cup {key} |->
        IF k = key THEN [snapshot EXCEPT !.timestamp = t] ELSE snapshots[k]]

\* createSnapshotIfNeeded(streamId, events): the snapshot map after the call
createSnapshotIfNeeded(streamId, evs, t) ==
  IF ~config.snapshotEnabled THEN snapshots
  ELSE IF Len(evs) = 0 THEN snapshots
  ELSE LET lastEvent == evs[Len(evs)]
       IN IF lastEvent.version % config.snapshotInterval = 0
          THEN saveSnapshot([aggregateId |-> streamId,
                             aggregateType |-> "Enrollment",
                             version |-> lastEvent.version,
                             data |-> [lastEventType |-> lastEvent.event.eventType,
                                       streamId |-> streamId],
                             timestamp |-> t], t)
          ELSE snapshots

\* ------------------------------------------------------ domain events
sortEventsByVersion_unsorted(evs) == evs

sortEventsByVersion(evs) == SortByVersion(evs)

\* validateEventSequence without the check that the versions run from 1
\* without a gap
validateEventSequence_firstOnly(evs) ==
  IF Len(evs) = 0 THEN TRUE
  ELSE LET sorted == sortEventsByVersion(evs)
       IN sorted[1].version = 1 /\ sorted[1].eventType = "EnrollmentRequested"

validateEventSequence(evs) ==
  IF Len(evs) = 0 THEN TRUE
  ELSE LET sorted == sortEventsByVersion(evs)
       IN IF \E i \in 1..Len(sorted) : sorted[i].version # (i - 1) + 1
          THEN FALSE
          ELSE Len(sorted) > 0 /\ sorted[1].eventType = "EnrollmentRequested"

\* ---------------------------------------------------------- aggregate
reconstructEnrollmentFromEvents_noEvents(evs) ==
  IF Len(evs) = 0 THEN Err(createValidationError("NO_EVENTS"))
  ELSE IF ~validateEventSequence(evs)
  THEN Err(createValidationError("INVALID_EVENT_SEQUENCE"))
  ELSE LET sortedEvents == sortEventsByVersion(evs)
           firstEvent == sortedEvents[1]
       IN IF firstEvent.eventType = "EnrollmentRequested"
          THEN Ok([studentId |-> firstEvent.studentId,
                   courseId |-> firstEvent.courseId,
                   semester |-> firstEvent.data.semester,
                   status |-> "requested",
                   requestedAt |-> firstEvent.data.requestedAt,
                   version |-> firstEvent.version])
          ELSE Err(createValidationError("INVALID_FIRST_EVENT"))

reconstructEnrollmentFromEvents(evs) ==
  IF Len(evs) = 0 THEN Ok(None)
  ELSE IF ~validateEventSequence(evs)
  THEN Err(createValidationError("INVALID_EVENT_SEQUENCE"))
  ELSE LET sortedEvents == sortEventsByVersion(evs)
           firstEvent == sortedEvents[1]
       IN IF firstEvent.eventType = "EnrollmentRequested"
          THEN Ok([studentId |-> firstEvent.studentId,
                   courseId |-> firstEvent.courseId,
                   semester |-> firstEvent.data.semester,
                   status |-> "requested",
                   requestedAt |-> firstEvent.data.requestedAt,
                   version |-> firstEvent.version])
          ELSE Err(createValidationError("INVALID_FIRST_EVENT"))

\* ------------------------------------------------------------------ calls
NoLoc == [op |-> "none"]

\* events a caller can hand to the store
CallerVersions == {1, 2}

InputEvents(id) ==
  [eventType : EventTypes, studentId : {id.studentId}, courseId : {id.courseId},
   version : CallerVersions, occurredAt : {0},
   data : [semester : {id.semester}, requestedAt : {0}]]

Batches(id) == UNION {[1..n -> InputEvents(id)] : n \in 0..MaxBatch}

\* the events stored in all streams, and those that calls past their version
\* read may still store
RECURSIVE SumFn(_)
SumFn(f) ==
  IF DOMAIN f = {} THEN 0
  ELSE LET x == CHOOSE y \in DOMAIN f : TRUE
       IN f[x] + SumFn([y \in DOMAIN f \ {x} |-> f[y]])

Stored == SumFn([k \in DOMAIN events |-> Len(events[k])])

Pending ==
  SumFn([p \in {q \in Procs : pc[q] = "append_version"} |-> Len(loc[p].events)])

\* append, up to its first await: getCurrentVersion has run (lines 44-50)
AppendEnter(p, frame, streamId, batch, expectedVersion) ==
  /\ pc' = [pc EXCEPT ![p] = "append_version"]
  /\ loc' = [loc EXCEPT ![p] =
               Merge(frame, [streamId |-> streamId, events |-> batch,
                             expectedVersion |-> expectedVersion,
                             currentVersion |-> getCurrentVersion(streamId)])]
  /\ UNCHANGED <<events, snapshots, metadata, config, now>>
  /\ UNCHANGED otherVars

\* append returns result: to the caller of the store, or into the save of
\* the repository the command handler is waiting for
AppendFinish(p, result) ==
  IF loc[p].op = "append"
  THEN /\ pc' = [pc EXCEPT ![p] = "returned"]
       /\ res' = [res EXCEPT ![p] = result]
       /\ UNCHANGED loc
  ELSE IF loc[p].op = "save" /\ repoKind = "eventSourced"
  THEN /\ pc' = [pc EXCEPT ![p] = "returned"]
       /\ res' = [res EXCEPT ![p] = result]
       /\ UNCHANGED loc
  ELSE IF loc[p].op = "save"
  THEN /\ pc' = [pc EXCEPT ![p] = "s_cache"]
       /\ loc' = [loc EXCEPT ![p] = Merge(@, [appendResult |-> result])]
       /\ UNCHANGED res
  ELSE /\ pc' = [pc EXCEPT ![p] =
                   IF repoKind = "memoryEventStore" THEN "h_cache" ELSE "h_saved"]
       /\ loc' = [loc EXCEPT ![p] = Merge(@, [saveResult |-> result])]
       /\ UNCHANGED res

AppendCall(p) ==
  /\ pc[p] = "idle"
  /\ \E id \in StoreIdentities, expectedVersion \in 0..MaxEvents :
       \E batch \in Batches(id) :
        /\ Stored + Pending + Len(batch) <= MaxEvents
        /\ AppendEnter(p, [op |-> "append"], StreamIdOf(id), batch, expectedVersion)
        /\ res' = [res EXCEPT ![p] = None]

\* append after the first await (lines 51-87): the version check, the push of
\* the batch, events.set and the body of updateStreamMetadata
AppendCheck(p) ==
  /\ pc[p] = "append_version"
  /\ LET l == loc[p] IN
     IF VersionConflict(l.currentVersion, l.expectedVersion)
     THEN /\ AppendFinish(p, Err(createConcurrencyError(l.expectedVersion,
                                                         l.currentVersion, l.streamId)))
          /\ UNCHANGED <<events, metadata>>
     ELSE LET streamEvents ==
                AppendedStream(StreamEvents(l.streamId),
                               StampBatch(l.streamId, l.events, l.expectedVersion, now))
          IN /\ events' = [k \in DOMAIN events \cup {l.streamId} |->
                             IF k = l.streamId THEN streamEvents ELSE events[k]]
             /\ metadata' = updateStreamMetadata(l.streamId, streamEvents, now)
             /\ pc' = [pc EXCEPT ![p] = "append_metadata"]
             /\ UNCHANGED <<res, loc>>
  /\ UNCHANGED <<snapshots, config, now>>
  /\ UNCHANGED otherVars

\* append after the second await (lines 89-90): createSnapshotIfNeeded on the
\* live array of the stream
AppendSnapshot(p) ==
  /\ pc[p] = "append_metadata"
  /\ snapshots' = createSnapshotIfNeeded(loc[p].streamId, StreamEvents(loc[p].streamId), now)
  /\ pc' = [pc EXCEPT ![p] = "append_snapshot"]
  /\ UNCHANGED <<events, metadata, config, now, loc, res>>
  /\ UNCHANGED otherVars

\* append after the third await (line 92)
AppendReturn(p) ==
  /\ pc[p] = "append_snapshot"
  /\ AppendFinish(p, Ok(None))
  /\ UNCHANGED <<events, snapshots, metadata, config, now>>
  /\ UNCHANGED otherVars

\* getEvents(streamId, fromVersion): no await inside, runs at the call
GetEventsCall(p) ==
  /\ pc[p] = "idle"
  /\ \E streamId \in StoreStreamIds, fromVersion \in 1..2 :
        /\ loc' = [loc EXCEPT ![p] = [op |-> "getEvents", streamId |-> streamId,
                                      fromVersion |-> fromVersion]]
        /\ res' = [res EXCEPT ![p] = Ok(getEvents(streamId, fromVersion))]
  /\ pc' = [pc EXCEPT ![p] = "returned"]
  /\ UNCHANGED <<events, snapshots, metadata, config, now>>
  /\ UNCHANGED otherVars

\* snapshots and metadata a caller can hand to the store
InputSnapshots ==
  [aggregateId : StoreStreamIds, aggregateType : {"Enrollment"}, version : {0},
   data : {None}, timestamp : {0}]

InputMetadata ==
  [streamId : StoreStreamIds, eventCount : {0}, firstEventVersion : {0},
   lastEventVersion : {0}, createdAt : {0}, lastModifiedAt : {0}]

\* saveSnapshot(snapshot) called directly: no await inside, runs at the call
SaveSnapshotCall(p) ==
  /\ pc[p] = "idle"
  /\ \E snapshot \in InputSnapshots :
        /\ snapshots' = saveSnapshot(snapshot, now)
        /\ loc' = [loc EXCEPT ![p] = [op |-> "saveSnapshot",
                                      streamId |-> snapshot.aggregateId]]
  /\ res' = [res EXCEPT ![p] = Ok(None)]
  /\ pc' = [pc EXCEPT ![p] = "returned"]
  /\ UNCHANGED <<events, metadata, config, now>>
  /\ UNCHANGED otherVars

\* updateMetadata(metadata) called directly: no await inside, runs at the call
UpdateMetadataCall(p) ==
  /\ pc[p] = "idle"
  /\ \E m \in InputMetadata :
        /\ metadata' = [k \in DOMAIN metadata \cup {m.streamId} |->
                          IF k = m.streamId THEN [m EXCEPT !.lastModifiedAt = now]
                          ELSE metadata[k]]
        /\ loc' = [loc EXCEPT ![p] = [op |-> "updateMetadata", streamId |-> m.streamId]]
  /\ res' = [res EXCEPT ![p] = Ok(None)]
  /\ pc' = [pc EXCEPT ![p] = "returned"]
  /\ UNCHANGED <<events, snapshots, config, now>>
  /\ UNCHANGED otherVars

\* the caller takes the result and is free to call again
Resume(p) ==
  /\ pc[p] = "returned"
  /\ pc' = [pc EXCEPT ![p] = "idle"]
  /\ loc' = [loc EXCEPT ![p] = NoLoc]
  /\ res' = [res EXCEPT ![p] = None]
  /\ UNCHANGED <<events, snapshots, metadata, config, now>>
  /\ UNCHANGED otherVars

Tick ==
  /\ now < MaxClock
  /\ now' = now + 1
  /\ UNCHANGED <<events, snapshots, metadata, config, pc, loc, res>>
  /\ UNCHANGED otherVars

Init ==
  /\ events = <<>>
  /\ snapshots = <<>>
  /\ metadata = <<>>
  /\ config \in [snapshotEnabled : BOOLEAN, snapshotInterval : SnapshotIntervals,
                 allowDuplicateEnrollment : {FALSE}, maxCoursesPerSemester : {8}]
  /\ now = 0
  /\ pc = [p \in Procs |-> "idle"]
  /\ loc = [p \in Procs |-> NoLoc]
  /\ res = [p \in Procs |-> None]
  /\ recEvents = <<>>
  /\ recResult = None
  /\ fnArgs = None
  /\ fnResult = None
  /\ repoKind = "eventSourced"
  /\ enrollments = <<>>
  /\ repoEvents = <<>>
  /\ published = <<>>
  /\ notified = <<>>
  /\ students = <<>>
  /\ courses = <<>>
  /\ services = "mock"

Next ==
  \/ \E p \in Procs : AppendCall(p)
  \/ \E p \in Procs : AppendCheck(p)
  \/ \E p \in Procs : AppendSnapshot(p)
  \/ \E p \in Procs : AppendReturn(p)
  \/ \E p \in Procs : GetEventsCall(p)
  \/ \E p \in Procs : SaveSnapshotCall(p)
  \/ \E p \in Procs : UpdateMetadataCall(p)
  \/ \E p \in Procs : Resume(p)

Spec == Init /\ [][Next]_vars

\* ================================================================
\* RequestEnrollmentCommandHandler and its collaborators
\* ================================================================

\* -------------------------------------------------------- identifier schemas
\* strings a command can carry: well-formed ids (one of them of no stored
\* student), the empty string (rejected by min(1)) and a non-empty string
\* the id pattern rejects
CommandStudentIds == StudentIds \cup {"", "st-1", "ST404"}

\* the courses a command can name: those of the universe and those stored
\* in the course repository by setCourseData
CommandCourseIds == CourseIds \cup DOMAIN courses

Commands ==
  [studentId : CommandStudentIds, courseId : CommandCourseIds, semester : Semesters]

\* RequestEnrollmentCommandSchema.safeParse(command).success
RequestEnrollmentCommandSchema(command) ==
  /\ command.studentId # ""
  /\ command.courseId # ""
  /\ command.semester # ""

\* /^[A-Z0-9]{1,20}$/ on the strings of the universe
StudentIdSchema(s) == s \in StudentIds \cup {"ST404"} \cup IdTexts

CourseIdSchema(s) == s \in CourseIds \cup {"CS102"} \cup IdTexts

\* /^\d{4}-(spring|summer|fall)$/ on the strings of the universe
SemesterSchema(s) == s \in SemesterTexts

parseIdentifiers(input) ==
  IF ~StudentIdSchema(input.studentId)
  THEN Err(Merge(createValidationError("INVALID_STUDENT_ID"), [field |-> "studentId"]))
  ELSE IF ~CourseIdSchema(input.courseId)
  THEN Err(Merge(createValidationError("INVALID_COURSE_ID"), [field |-> "courseId"]))
  ELSE IF ~SemesterSchema(input.semester)
  THEN Err(Merge(createValidationError("INVALID_SEMESTER"), [field |-> "semester"]))
  ELSE Ok([studentId |-> input.studentId, courseId |-> input.courseId,
           semester |-> input.semester])

\* ------------------------------------------------------------------- DTOs
\* Date.toISOString()
toISOString(t) == <<"iso", t>>

generateAggregateId(studentId, courseId, semester) == <<studentId, courseId, semester>>

mapEnrollmentToResponse(enrollment) ==
  [id |-> <<enrollment.studentId, enrollment.courseId, enrollment.semester>>,
   studentId |-> enrollment.studentId,
   courseId |-> enrollment.courseId,
   semester |-> enrollment.semester,
   status |-> enrollment.status,
   requestedAt |-> toISOString(enrollment.requestedAt),
   version |-> enrollment.version]

\* the optional fields are present in the response when the error has them
mapErrorToResponse(error) ==
  [k \in DOMAIN error \cap {"type", "code", "field", "rule", "entity",
                            "expectedVersion", "actualVersion"} |-> error[k]]

\* ------------------------------------------------------- domain: request
\* parseInt(semester.split('-')[0]) of a text that SemesterSchema accepted
SemesterYear(semester) ==
  CHOOSE y \in SemesterYears : \E season \in Seasons : semester = YearText(y) \o "-" \o season

validateInputs(input) ==
  IF ~StudentIdSchema(input.studentId)
  THEN Err(createValidationError("INVALID_STUDENT_ID"))
  ELSE IF ~CourseIdSchema(input.courseId)
  THEN Err(createValidationError("INVALID_COURSE_ID"))
  ELSE IF ~SemesterSchema(input.semester)
  THEN Err(createValidationError("INVALID_SEMESTER"))
  ELSE Ok(input)

applyBusinessRules_widerWindow(input) ==
  IF /\ SemesterYear(input.semester) >= CurrentYear - 2
     /\ SemesterYear(input.semester) <= CurrentYear + 2
  THEN Ok(None)
  ELSE Err(createBusinessRuleError("INVALID_SEMESTER_RANGE", "SEMESTER_OUT_OF_RANGE"))

applyBusinessRules(input) ==
  IF /\ SemesterYear(input.semester) >= CurrentYear - 1
     /\ SemesterYear(input.semester) <= CurrentYear + 1
  THEN Ok(None)
  ELSE Err(createBusinessRuleError("INVALID_SEMESTER_RANGE", "SEMESTER_OUT_OF_RANGE"))

createRequestedEnrollment_otherStudent(studentId, courseId, semester, t) ==
  [studentId |-> "ST001", courseId |-> courseId, semester |-> semester,
   status |-> "requested", requestedAt |-> t, version |-> 1]

\* t is the instant its new Date() reads
createRequestedEnrollment(studentId, courseId, semester, t) ==
  [studentId |-> studentId, courseId |-> courseId, semester |-> semester,
   status |-> "requested", requestedAt |-> t, version |-> 1]

\* the options of requestEnrollment and createEnrollmentRequestedEvent: every
\* key is optional
OptionKeys == {"correlationId", "causationId", "metadata"}

\* the texts z.string().uuid() accepts, among those the model uses
Uuids == {"123e4567-e89b-12d3-a456-426614174000", "987fcdeb-51a2-43c1-b9e5-123456789abc"}

\* a call that ends in an exception returns no Result
Thrown(name) == [thrown |-> name]

\* the record with the keys of r that are in keys (the others are undefined)
Pick(r, keys) == [k \in DOMAIN r \cap keys |-> r[k]]

createEnrollmentRequestedEvent_noOptions(studentId, courseId, semester, version, options, t) ==
  [eventType |-> "EnrollmentRequested", studentId |-> studentId,
   courseId |-> courseId, version |-> version, occurredAt |-> t,
   data |-> [semester |-> semester, requestedAt |-> t]]

\* t is the instant its new Date() reads; EnrollmentRequestedEventSchema.parse
\* throws when correlationId or causationId is not a uuid
createEnrollmentRequestedEvent(studentId, courseId, semester, version, options, t) ==
  IF \E k \in DOMAIN options \cap {"correlationId", "causationId"} : options[k] \notin Uuids
  THEN Thrown("ZodError")
  ELSE Merge([eventType |-> "EnrollmentRequested", studentId |-> studentId,
              courseId |-> courseId, version |-> version, occurredAt |-> t,
              data |-> Merge([semester |-> semester, requestedAt |-> t],
                             Pick(options, {"metadata"}))],
             Pick(options, {"correlationId", "causationId"}))

\* t1 and t2 are the instants the two constructors read the clock at
requestEnrollment(studentId, courseId, semester, options, t1, t2) ==
  LET input == [studentId |-> studentId, courseId |-> courseId, semester |-> semester]
  IN IF ~validateInputs(input).success THEN validateInputs(input)
     ELSE IF ~applyBusinessRules(input).success THEN applyBusinessRules(input)
     ELSE LET enrollment == createRequestedEnrollment(studentId, courseId, semester, t1)
              domainEvent == createEnrollmentRequestedEvent(studentId, courseId,
                                                            semester, enrollment.version,
                                                            options, t2)
          IN IF "thrown" \in DOMAIN domainEvent THEN domainEvent
             ELSE Ok(Merge(enrollment, [domainEvent |-> domainEvent]))

\* const { domainEvent, ...enrollment } = data
RestOfEnrollment(data) == [k \in DOMAIN data \ {"domainEvent"} |-> data[k]]

\* ------------------------------------------------- collaborating repositories
studentExists(studentId) ==
  studentId \in DOMAIN students /\ students[studentId].exists

getEnrollmentStatus(studentId) ==
  IF ~studentExists(studentId) THEN Err(createNotFoundError("Student", studentId))
  ELSE Ok(students[studentId].status)

courseExists(courseId) ==
  courseId \in DOMAIN courses /\ courses[courseId].exists

isOfferedInSemester(courseId, semester) ==
  /\ courseExists(courseId)
  /\ semester \in DOMAIN courses[courseId].offerings
  /\ courses[courseId].offerings[semester].offered

getCapacity(courseId, semester) ==
  IF ~courseExists(courseId) THEN Err(createNotFoundError("Course", courseId))
  ELSE IF semester \notin DOMAIN courses[courseId].offerings
  THEN Err(createNotFoundError("CourseOffering", <<courseId, semester>>))
  ELSE Ok([max |-> courses[courseId].offerings[semester].maxCapacity,
           current |-> courses[courseId].offerings[semester].currentEnrollment])

\* ------------------------------------------------ InMemoryEnrollmentRepository
\* findByStudentCourseAndSemester of the in-memory repository: the cache only
findInMemory(studentId, courseId, semester) ==
  LET aggregateId == generateAggregateId(studentId, courseId, semester)
  IN Ok(IF aggregateId \in DOMAIN enrollments THEN enrollments[aggregateId] ELSE None)

saveInMemoryConflict_strict(aggregateId, enrollment) ==
  /\ aggregateId \in DOMAIN enrollments
  /\ enrollments[aggregateId].version > enrollment.version

saveInMemoryConflict(aggregateId, enrollment) ==
  /\ aggregateId \in DOMAIN enrollments
  /\ enrollments[aggregateId].version >= enrollment.version

\* ------------------------------------------------------------ handler steps
HandlerBeforeSave ==
  {"h_studentExists", "h_studentStatus", "h_courseExists", "h_courseOffered",
   "h_capacity", "h_prereq", "h_findExists", "h_findEvents", "h_found", "h_dup",
   "h_limit"}

\* commands that have not yet reached their save
HandlersPending == Cardinality({p \in Procs : pc[p] \in HandlerBeforeSave})

Goto(p, label, fields) ==
  /\ pc' = [pc EXCEPT ![p] = label]
  /\ loc' = [loc EXCEPT ![p] = Merge(@, fields)]
  /\ UNCHANGED res

Return(p, result) ==
  /\ pc' = [pc EXCEPT ![p] = "returned"]
  /\ res' = [res EXCEPT ![p] = result]
  /\ UNCHANGED loc

storeVars == <<events, snapshots, metadata>>

\* history of the call, read by no step: whether, when handle(command) is
\* called, another caller holds a success response for the same command
StartedAfterSuccess(command) ==
  \E q \in Procs :
    /\ pc[q] = "returned" /\ loc[q].op = "handle"
    /\ loc[q].command = command /\ res[q].success

\* handle(command) up to its first await: validation, then checkPrerequisites
\* up to studentRepository.exists
HandleCall(p) ==
  /\ pc[p] = "idle"
  /\ Stored + Pending + HandlersPending + 1 <= MaxEvents
  /\ \E command \in Commands :
       IF ~RequestEnrollmentCommandSchema(command)
       THEN /\ pc' = [pc EXCEPT ![p] = "returned"]
            /\ loc' = [loc EXCEPT ![p] = [op |-> "handle", command |-> command,
                                          startedAfterSuccess |->
                                            StartedAfterSuccess(command)]]
            /\ res' = [res EXCEPT ![p] = Err(mapErrorToResponse(
                        createBusinessRuleError("INPUT_VALIDATION",
                                                "INVALID_COMMAND_FORMAT")))]
       ELSE /\ res' = [res EXCEPT ![p] = None]
            /\ IF ~parseIdentifiers(command).success
               THEN /\ pc' = [pc EXCEPT ![p] = "h_prereq"]
                    /\ loc' = [loc EXCEPT ![p] =
                                [op |-> "handle", command |-> command,
                                 startedAfterSuccess |-> StartedAfterSuccess(command),
                                 prerequisiteCheck |-> parseIdentifiers(command)]]
               ELSE /\ pc' = [pc EXCEPT ![p] = "h_studentExists"]
                    /\ loc' = [loc EXCEPT ![p] =
                                [op |-> "handle", command |-> command,
                                 startedAfterSuccess |-> StartedAfterSuccess(command),
                                 studentExistsResult |->
                                   Ok(studentExists(command.studentId))]]
  /\ UNCHANGED <<storeVars, config, now>>
  /\ UNCHANGED otherVars

HStudentExists(p) ==
  /\ pc[p] = "h_studentExists"
  /\ LET c == loc[p].command
     IN IF ~loc[p].studentExistsResult.data
        THEN Goto(p, "h_prereq", [prerequisiteCheck |->
               Err(createBusinessRuleError("STUDENT_NOT_FOUND", "STUDENT_NOT_FOUND"))])
        ELSE Goto(p, "h_studentStatus",
                  [studentStatusResult |-> getEnrollmentStatus(c.studentId)])
  /\ UNCHANGED <<storeVars, config, now>>
  /\ UNCHANGED otherVars

HStudentStatus(p) ==
  /\ pc[p] = "h_studentStatus"
  /\ LET c == loc[p].command
         r == loc[p].studentStatusResult
     IN IF ~r.success THEN Goto(p, "h_prereq", [prerequisiteCheck |-> r])
        ELSE IF r.data # "active"
        THEN Goto(p, "h_prereq", [prerequisiteCheck |->
               Err(createBusinessRuleError("STUDENT_NOT_ACTIVE", "STUDENT_NOT_ACTIVE"))])
        ELSE Goto(p, "h_courseExists",
                  [courseExistsResult |-> Ok(courseExists(c.courseId))])
  /\ UNCHANGED <<storeVars, config, now>>
  /\ UNCHANGED otherVars

HCourseExists(p) ==
  /\ pc[p] = "h_courseExists"
  /\ LET c == loc[p].command
     IN IF ~loc[p].courseExistsResult.data
        THEN Goto(p, "h_prereq", [prerequisiteCheck |->
               Err(createBusinessRuleError("COURSE_NOT_FOUND", "COURSE_NOT_FOUND"))])
        ELSE Goto(p, "h_courseOffered",
                  [courseOfferedResult |-> Ok(isOfferedInSemester(c.courseId, c.semester))])
  /\ UNCHANGED <<storeVars, config, now>>
  /\ UNCHANGED otherVars

HCourseOffered(p) ==
  /\ pc[p] = "h_courseOffered"
  /\ LET c == loc[p].command
     IN IF ~loc[p].courseOfferedResult.data
        THEN Goto(p, "h_prereq", [prerequisiteCheck |->
               Err(createBusinessRuleError("COURSE_NOT_OFFERED", "COURSE_NOT_OFFERED"))])
        ELSE Goto(p, "h_capacity",
                  [capacityResult |-> getCapacity(c.courseId, c.semester)])
  /\ UNCHANGED <<storeVars, config, now>>
  /\ UNCHANGED otherVars

HCapacity_strict(p) ==
  /\ pc[p] = "h_capacity"
  /\ LET r == loc[p].capacityResult
     IN IF ~r.success THEN Goto(p, "h_prereq", [prerequisiteCheck |-> r])
        ELSE IF r.data.current > r.data.max
        THEN Goto(p, "h_prereq", [prerequisiteCheck |->
               Err(createBusinessRuleError("COURSE_CAPACITY_EXCEEDED",
                                           "COURSE_CAPACITY_EXCEEDED"))])
        ELSE Goto(p, "h_prereq", [prerequisiteCheck |-> Ok(None)])
  /\ UNCHANGED <<storeVars, config, now>>
  /\ UNCHANGED otherVars

HCapacity_countsAccepted(p) ==
  /\ pc[p] = "h_capacity"
  /\ LET r == loc[p].capacityResult
         accepted == IF repoKind = "eventSourced"
                     THEN Cardinality({s \in DOMAIN events : Len(events[s]) > 0})
                     ELSE Cardinality(DOMAIN enrollments)
     IN IF ~r.success THEN Goto(p, "h_prereq", [prerequisiteCheck |-> r])
        ELSE IF r.data.current + accepted >= r.data.max
        THEN Goto(p, "h_prereq", [prerequisiteCheck |->
               Err(createBusinessRuleError("COURSE_CAPACITY_EXCEEDED",
                                           "COURSE_CAPACITY_EXCEEDED"))])
        ELSE Goto(p, "h_prereq", [prerequisiteCheck |-> Ok(None)])
  /\ UNCHANGED <<storeVars, config, now>>
  /\ UNCHANGED otherVars

HCapacity(p) ==
  /\ pc[p] = "h_capacity"
  /\ LET r == loc[p].capacityResult
     IN IF ~r.success THEN Goto(p, "h_prereq", [prerequisiteCheck |-> r])
        ELSE IF r.data.current >= r.data.max
        THEN Goto(p, "h_prereq", [prerequisiteCheck |->
               Err(createBusinessRuleError("COURSE_CAPACITY_EXCEEDED",
                                           "COURSE_CAPACITY_EXCEEDED"))])
        ELSE Goto(p, "h_prereq", [prerequisiteCheck |-> Ok(None)])
  /\ UNCHANGED <<storeVars, config, now>>
  /\ UNCHANGED otherVars

HPrereq_alwaysLookup(p) ==
  /\ pc[p] = "h_prereq"
  /\ LET c == loc[p].command
     IN IF ~loc[p].prerequisiteCheck.success
        THEN Return(p, Err(mapErrorToResponse(loc[p].prerequisiteCheck.error)))
        ELSE IF ~parseIdentifiers(c).success
        THEN Goto(p, "h_dup", [duplicateCheck |-> parseIdentifiers(c)])
        ELSE IF repoKind = "eventSourced"
        THEN Goto(p, "h_findExists",
                  [existsResult |->
                     Ok(streamExists(createEnrollmentStreamId(c.studentId, c.courseId,
                                                              c.semester)))])
        ELSE Goto(p, "h_found",
                  [existingEnrollmentResult |->
                     findInMemory(c.studentId, c.courseId, c.semester)])
  /\ UNCHANGED <<storeVars, config, now>>
  /\ UNCHANGED otherVars

\* handle resumes with prerequisiteCheck; checkForDuplicateEnrollment runs up
\* to the first await of the repository's find
HPrereq(p) ==
  /\ pc[p] = "h_prereq"
  /\ LET c == loc[p].command
     IN IF ~loc[p].prerequisiteCheck.success
        THEN Return(p, Err(mapErrorToResponse(loc[p].prerequisiteCheck.error)))
        ELSE IF config.allowDuplicateEnrollment
        THEN Goto(p, "h_dup", [duplicateCheck |-> Ok(None)])
        ELSE IF ~parseIdentifiers(c).success
        THEN Goto(p, "h_dup", [duplicateCheck |-> parseIdentifiers(c)])
        ELSE IF repoKind = "eventSourced"
        THEN Goto(p, "h_findExists",
                  [existsResult |->
                     Ok(streamExists(createEnrollmentStreamId(c.studentId, c.courseId,
                                                              c.semester)))])
        ELSE Goto(p, "h_found",
                  [existingEnrollmentResult |->
                     findInMemory(c.studentId, c.courseId, c.semester)])
  /\ UNCHANGED <<storeVars, config, now>>
  /\ UNCHANGED otherVars

\* EventSourcedEnrollmentRepository.find after stream.exists()
HFindExists(p) ==
  /\ pc[p] = "h_findExists"
  /\ LET c == loc[p].command
     IN IF ~loc[p].existsResult.data
        THEN Goto(p, "h_found", [existingEnrollmentResult |-> Ok(None)])
        ELSE Goto(p, "h_findEvents",
                  [eventsResult |->
                     Ok(getEvents(createEnrollmentStreamId(c.studentId, c.courseId,
                                                           c.semester), 1))])
  /\ UNCHANGED <<storeVars, config, now>>
  /\ UNCHANGED otherVars

\* EventSourcedEnrollmentRepository.find after stream.getAllEvents()
HFindEvents(p) ==
  /\ pc[p] = "h_findEvents"
  /\ Goto(p, "h_found", [existingEnrollmentResult |->
                           reconstructEnrollmentFromEvents(loc[p].eventsResult.data)])
  /\ UNCHANGED <<storeVars, config, now>>
  /\ UNCHANGED otherVars

\* checkForDuplicateEnrollment after the repository's find
HFound(p) ==
  /\ pc[p] = "h_found"
  /\ LET r == loc[p].existingEnrollmentResult
     IN IF ~r.success THEN Goto(p, "h_dup", [duplicateCheck |-> r])
        ELSE IF r.data # None
        THEN Goto(p, "h_dup", [duplicateCheck |->
               Err(createBusinessRuleError("DUPLICATE_ENROLLMENT",
                                           "DUPLICATE_ENROLLMENT"))])
        ELSE Goto(p, "h_dup", [duplicateCheck |-> Ok(None)])
  /\ UNCHANGED <<storeVars, config, now>>
  /\ UNCHANGED otherVars

\* the count of current enrollments is the literal 0 in the code
checkEnrollmentLimit(studentId, semester) ==
  IF studentId = "" \/ semester = ""
  THEN Err(createBusinessRuleError("INVALID_INPUT", "INVALID_INPUT"))
  ELSE IF 0 >= config.maxCoursesPerSemester
  THEN Err(createBusinessRuleError("ENROLLMENT_LIMIT_EXCEEDED",
                                   "ENROLLMENT_LIMIT_EXCEEDED"))
  ELSE Ok(None)

\* handle resumes with duplicateCheck; checkEnrollmentLimit has no await of
\* its own
HDup(p) ==
  /\ pc[p] = "h_dup"
  /\ LET c == loc[p].command
     IN IF ~loc[p].duplicateCheck.success
        THEN Return(p, Err(mapErrorToResponse(loc[p].duplicateCheck.error)))
        ELSE Goto(p, "h_limit",
                  [enrollmentLimitCheck |-> checkEnrollmentLimit(c.studentId, c.semester)])
  /\ UNCHANGED <<storeVars, config, now>>
  /\ UNCHANGED otherVars

\* handle resumes with enrollmentLimitCheck: requestEnrollment, then the
\* repository's save up to its first await (the in-memory save has none)
HLimit(p) ==
  /\ pc[p] = "h_limit"
  /\ LET c == loc[p].command
     IN IF ~loc[p].enrollmentLimitCheck.success
        THEN /\ Return(p, Err(mapErrorToResponse(loc[p].enrollmentLimitCheck.error)))
             /\ UNCHANGED <<storeVars, now, repoVars>>
        ELSE \E t2 \in now..MaxClock :
          LET domainResult == requestEnrollment(c.studentId, c.courseId, c.semester,
                                                Pick(c, OptionKeys), now, t2)
          IN /\ now' = t2
             /\ IF ~domainResult.success
                THEN /\ Return(p, Err(mapErrorToResponse(domainResult.error)))
                     /\ UNCHANGED <<storeVars, repoVars>>
                ELSE LET domainEvent == domainResult.data.domainEvent
                         enrollment == RestOfEnrollment(domainResult.data)
                         aggregateId == generateAggregateId(enrollment.studentId,
                                          enrollment.courseId, enrollment.semester)
                         frame == Merge(loc[p], [enrollment |-> enrollment,
                                                 domainEvent |-> domainEvent])
                     IN IF repoKind = "memory"
                        THEN /\ IF saveInMemoryConflict(aggregateId, enrollment)
                                THEN /\ Goto(p, "h_saved",
                                          [enrollment |-> enrollment,
                                           domainEvent |-> domainEvent,
                                           saveResult |->
                                             Err(createConcurrencyError(
                                                   enrollment.version,
                                                   enrollments[aggregateId].version,
                                                   aggregateId))])
                                     /\ UNCHANGED <<enrollments, repoEvents>>
                                ELSE /\ Goto(p, "h_saved",
                                          [enrollment |-> enrollment,
                                           domainEvent |-> domainEvent,
                                           saveResult |-> Ok(None)])
                                     /\ repoEvents' =
                                          [k \in DOMAIN repoEvents \cup {aggregateId} |->
                                             IF k = aggregateId
                                             THEN Append(IF k \in DOMAIN repoEvents
                                                         THEN repoEvents[k] ELSE <<>>,
                                                         domainEvent)
                                             ELSE repoEvents[k]]
                                     /\ enrollments' =
                                          [k \in DOMAIN enrollments \cup {aggregateId} |->
                                             IF k = aggregateId THEN enrollment
                                             ELSE enrollments[k]]
                             /\ UNCHANGED <<storeVars, repoKind>>
                        ELSE /\ pc' = [pc EXCEPT ![p] = "append_version"]
                             /\ loc' = [loc EXCEPT ![p] =
                                  Merge(frame,
                                    [streamId |-> createEnrollmentStreamId(
                                                    enrollment.studentId,
                                                    enrollment.courseId,
                                                    enrollment.semester),
                                     events |-> <<domainEvent>>,
                                     expectedVersion |-> enrollment.version - 1,
                                     currentVersion |-> getCurrentVersion(
                                        createEnrollmentStreamId(enrollment.studentId,
                                          enrollment.courseId, enrollment.semester))])]
                             /\ UNCHANGED <<res, storeVars, repoVars>>
  /\ UNCHANGED <<config, recVars, serviceVars>>

HCache_always(p) ==
  /\ pc[p] = "h_cache"
  /\ LET enrollment == loc[p].enrollment
         aggregateId == generateAggregateId(enrollment.studentId, enrollment.courseId,
                                            enrollment.semester)
     IN enrollments' = [k \in DOMAIN enrollments \cup {aggregateId} |->
                          IF k = aggregateId THEN enrollment ELSE enrollments[k]]
  /\ pc' = [pc EXCEPT ![p] = "h_saved"]
  /\ UNCHANGED <<storeVars, config, now, loc, res, repoKind, repoEvents>>
  /\ UNCHANGED <<recVars, serviceVars>>

\* saveWithEventStore after stream.appendEvents: the cache is set on success
HCache(p) ==
  /\ pc[p] = "h_cache"
  /\ LET enrollment == loc[p].enrollment
         aggregateId == generateAggregateId(enrollment.studentId, enrollment.courseId,
                                            enrollment.semester)
     IN IF ~loc[p].saveResult.success THEN UNCHANGED enrollments
        ELSE enrollments' = [k \in DOMAIN enrollments \cup {aggregateId} |->
                               IF k = aggregateId THEN enrollment ELSE enrollments[k]]
  /\ pc' = [pc EXCEPT ![p] = "h_saved"]
  /\ UNCHANGED <<storeVars, config, now, loc, res, repoKind, repoEvents>>
  /\ UNCHANGED <<recVars, serviceVars>>

\* the results a call of the publisher or of the notification service can
\* return: the mocks always return Ok, a failing service may return an error
ServiceResults ==
  IF services = "mock" THEN {Ok(None)}
  ELSE {Ok(None), Err(createValidationError("SERVICE_FAILURE"))}

HSaved_publishAlways(p) ==
  /\ pc[p] = "h_saved"
  /\ published' = Append(published, [events |-> <<loc[p].domainEvent>>,
                                     timestamp |-> now])
  /\ pc' = [pc EXCEPT ![p] = "h_published"]
  /\ loc' = [loc EXCEPT ![p] = Merge(@, [publishResult |-> Ok(None)])]
  /\ UNCHANGED res
  /\ UNCHANGED <<storeVars, config, now, notified, students, courses, services>>
  /\ UNCHANGED <<recVars, repoVars>>

HSaved_retry(p) ==
  /\ pc[p] = "h_saved"
  /\ IF ~loc[p].saveResult.success
     THEN /\ pc' = [pc EXCEPT ![p] = "h_limit"]
          /\ UNCHANGED <<loc, res, published>>
     ELSE \E publishResult \in ServiceResults :
          /\ published' = IF publishResult.success
                          THEN Append(published, [events |-> <<loc[p].domainEvent>>,
                                                  timestamp |-> now])
                          ELSE published
          /\ pc' = [pc EXCEPT ![p] = "h_published"]
          /\ loc' = [loc EXCEPT ![p] = Merge(@, [publishResult |-> publishResult])]
          /\ UNCHANGED res
  /\ UNCHANGED <<storeVars, config, now, notified, students, courses, services>>
  /\ UNCHANGED <<recVars, repoVars>>

\* handle resumes with saveResult; eventPublisher.publish on success
HSaved(p) ==
  /\ pc[p] = "h_saved"
  /\ IF ~loc[p].saveResult.success
     THEN /\ Return(p, Err(mapErrorToResponse(loc[p].saveResult.error)))
          /\ UNCHANGED published
     ELSE \E publishResult \in ServiceResults :
          /\ published' = IF publishResult.success
                          THEN Append(published, [events |-> <<loc[p].domainEvent>>,
                                                  timestamp |-> now])
                          ELSE published
          /\ pc' = [pc EXCEPT ![p] = "h_published"]
          /\ loc' = [loc EXCEPT ![p] = Merge(@, [publishResult |-> publishResult])]
          /\ UNCHANGED res
  /\ UNCHANGED <<storeVars, config, now, notified, students, courses, services>>
  /\ UNCHANGED <<recVars, repoVars>>

HPublished_propagate(p) ==
  /\ pc[p] = "h_published"
  /\ IF ~loc[p].publishResult.success
     THEN /\ Return(p, Err(mapErrorToResponse(loc[p].publishResult.error)))
          /\ UNCHANGED notified
     ELSE \E notifyResult \in ServiceResults :
          /\ notified' = IF notifyResult.success
                         THEN Append(notified, [event |-> loc[p].domainEvent,
                                                timestamp |-> now])
                         ELSE notified
          /\ pc' = [pc EXCEPT ![p] = "h_notified"]
          /\ loc' = [loc EXCEPT ![p] = Merge(@, [notifyResult |-> notifyResult])]
          /\ UNCHANGED res
  /\ UNCHANGED <<storeVars, config, now, published, students, courses, services>>
  /\ UNCHANGED <<recVars, repoVars>>

HPublished_noNotify(p) ==
  /\ pc[p] = "h_published"
  /\ pc' = [pc EXCEPT ![p] = "h_notified"]
  /\ loc' = [loc EXCEPT ![p] = Merge(@, [notifyResult |-> Ok(None)])]
  /\ UNCHANGED <<res, notified>>
  /\ UNCHANGED <<storeVars, config, now, published, students, courses, services>>
  /\ UNCHANGED <<recVars, repoVars>>

\* handle resumes after publish, whose result it does not look at;
\* notificationService.notifyEnrollmentRequested
HPublished(p) ==
  /\ pc[p] = "h_published"
  /\ \E notifyResult \in ServiceResults :
       /\ notified' = IF notifyResult.success
                      THEN Append(notified, [event |-> loc[p].domainEvent,
                                             timestamp |-> now])
                      ELSE notified
       /\ pc' = [pc EXCEPT ![p] = "h_notified"]
       /\ loc' = [loc EXCEPT ![p] = Merge(@, [notifyResult |-> notifyResult])]
       /\ UNCHANGED res
  /\ UNCHANGED <<storeVars, config, now, published, students, courses, services>>
  /\ UNCHANGED <<recVars, repoVars>>

HNotified(p) ==
  /\ pc[p] = "h_notified"
  /\ Return(p, Ok(mapEnrollmentToResponse(loc[p].enrollment)))
  /\ UNCHANGED <<storeVars, config, now>>
  /\ UNCHANGED otherVars

RepoKinds == {"memory", "memoryEventStore", "eventSourced"}

InitCmd ==
  /\ events = <<>>
  /\ snapshots = <<>>
  /\ metadata = <<>>
  /\ config \in [snapshotEnabled : {FALSE}, snapshotInterval : SnapshotIntervals,
                 allowDuplicateEnrollment : {FALSE}, maxCoursesPerSemester : {8}]
  /\ now = 0
  /\ pc = [p \in Procs |-> "idle"]
  /\ loc = [p \in Procs |-> NoLoc]
  /\ res = [p \in Procs |-> None]
  /\ recEvents = <<>>
  /\ recResult = None
  /\ fnArgs = None
  /\ fnResult = None
  /\ repoKind \in RepoKinds
  /\ enrollments = <<>>
  /\ repoEvents = <<>>
  /\ published = <<>>
  /\ notified = <<>>
  /\ students = [s \in StudentIds |-> [exists |-> TRUE, status |-> "active"]]
  /\ courses = [c \in CourseIds |->
                 [exists |-> TRUE,
                  offerings |-> [s \in Semesters |->
                                  [offered |-> TRUE, maxCapacity |-> 2,
                                   currentEnrollment |-> 0]]]]
  /\ services = "mock"

NextCmd ==
  \/ \E p \in Procs : HandleCall(p)
  \/ \E p \in Procs : HStudentExists(p)
  \/ \E p \in Procs : HStudentStatus(p)
  \/ \E p \in Procs : HCourseExists(p)
  \/ \E p \in Procs : HCourseOffered(p)
  \/ \E p \in Procs : HCapacity(p)
  \/ \E p \in Procs : HPrereq(p)
  \/ \E p \in Procs : HFindExists(p)
  \/ \E p \in Procs : HFindEvents(p)
  \/ \E p \in Procs : HFound(p)
  \/ \E p \in Procs : HDup(p)
  \/ \E p \in Procs : HLimit(p)
  \/ \E p \in Procs : AppendCheck(p)
  \/ \E p \in Procs : AppendSnapshot(p)
  \/ \E p \in Procs : AppendReturn(p)
  \/ \E p \in Procs : HCache(p)
  \/ \E p \in Procs : HSaved(p)
  \/ \E p \in Procs : HPublished(p)
  \/ \E p \in Procs : HNotified(p)
  \/ \E p \in Procs : Resume(p)
  \/ Tick

SpecCmd == InitCmd /\ [][NextCmd]_vars

\* the command handler constructed with the event-sourced repository and
\* with a publisher and a notification service that can fail
InitFail ==
  /\ events = <<>>
  /\ snapshots = <<>>
  /\ metadata = <<>>
  /\ config \in [snapshotEnabled : {FALSE}, snapshotInterval : SnapshotIntervals,
                 allowDuplicateEnrollment : {FALSE}, maxCoursesPerSemester : {8}]
  /\ now = 0
  /\ pc = [p \in Procs |-> "idle"]
  /\ loc = [p \in Procs |-> NoLoc]
  /\ res = [p \in Procs |-> None]
  /\ recEvents = <<>>
  /\ recResult = None
  /\ fnArgs = None
  /\ fnResult = None
  /\ repoKind = "eventSourced"
  /\ enrollments = <<>>
  /\ repoEvents = <<>>
  /\ published = <<>>
  /\ notified = <<>>
  /\ students = [s \in StudentIds |-> [exists |-> TRUE, status |-> "active"]]
  /\ courses = [c \in CourseIds |->
                 [exists |-> TRUE,
                  offerings |-> [s \in Semesters |->
                                  [offered |-> TRUE, maxCapacity |-> 2,
                                   currentEnrollment |-> 0]]]]
  /\ services = "failing"

NextEventSourced ==
  \/ \E p \in Procs : HandleCall(p)
  \/ \E p \in Procs : HStudentExists(p)
  \/ \E p \in Procs : HStudentStatus(p)
  \/ \E p \in Procs : HCourseExists(p)
  \/ \E p \in Procs : HCourseOffered(p)
  \/ \E p \in Procs : HCapacity(p)
  \/ \E p \in Procs : HPrereq(p)
  \/ \E p \in Procs : HFindExists(p)
  \/ \E p \in Procs : HFindEvents(p)
  \/ \E p \in Procs : HFound(p)
  \/ \E p \in Procs : HDup(p)
  \/ \E p \in Procs : HLimit(p)
  \/ \E p \in Procs : AppendCheck(p)
  \/ \E p \in Procs : AppendSnapshot(p)
  \/ \E p \in Procs : AppendReturn(p)
  \/ \E p \in Procs : HSaved(p)
  \/ \E p \in Procs : HPublished(p)
  \/ \E p \in Procs : HNotified(p)
  \/ \E p \in Procs : Resume(p)

SpecFail == InitFail /\ [][NextEventSourced]_vars

\* the command handler over the event-sourced repository with a snapshot
\* taken at every event
InitStreams ==
  /\ events = <<>>
  /\ snapshots = <<>>
  /\ metadata = <<>>
  /\ config \in [snapshotEnabled : {TRUE}, snapshotInterval : {1},
                 allowDuplicateEnrollment : {FALSE}, maxCoursesPerSemester : {8}]
  /\ now = 0
  /\ pc = [p \in Procs |-> "idle"]
  /\ loc = [p \in Procs |-> NoLoc]
  /\ res = [p \in Procs |-> None]
  /\ recEvents = <<>>
  /\ recResult = None
  /\ fnArgs = None
  /\ fnResult = None
  /\ repoKind = "eventSourced"
  /\ enrollments = <<>>
  /\ repoEvents = <<>>
  /\ published = <<>>
  /\ notified = <<>>
  /\ students = [s \in StudentIds |-> [exists |-> TRUE, status |-> "active"]]
  /\ courses = [c \in CourseIds |->
                 [exists |-> TRUE,
                  offerings |-> [s \in Semesters |->
                                  [offered |-> TRUE, maxCapacity |-> 2,
                                   currentEnrollment |-> 0]]]]
  /\ services = "mock"

SpecStreams == InitStreams /\ [][NextEventSourced]_vars

\* commands handled one after another: handle is called when the call before
\* it has returned (for (const command of commands) await handle(command))
Quiescent == \A q \in Procs : pc[q] \in {"idle", "returned"}

HandleCallSeq(p) == Quiescent /\ HandleCall(p)

NextSeq ==
  \/ \E p \in Procs : HandleCallSeq(p)
  \/ \E p \in Procs : HStudentExists(p)
  \/ \E p \in Procs : HStudentStatus(p)
  \/ \E p \in Procs : HCourseExists(p)
  \/ \E p \in Procs : HCourseOffered(p)
  \/ \E p \in Procs : HCapacity(p)
  \/ \E p \in Procs : HPrereq(p)
  \/ \E p \in Procs : HFindExists(p)
  \/ \E p \in Procs : HFindEvents(p)
  \/ \E p \in Procs : HFound(p)
  \/ \E p \in Procs : HDup(p)
  \/ \E p \in Procs : HLimit(p)
  \/ \E p \in Procs : AppendCheck(p)
  \/ \E p \in Procs : AppendSnapshot(p)
  \/ \E p \in Procs : AppendReturn(p)
  \/ \E p \in Procs : HCache(p)
  \/ \E p \in Procs : HSaved(p)
  \/ \E p \in Procs : HPublished(p)
  \/ \E p \in Procs : HNotified(p)
  \/ \E p \in Procs : Resume(p)

SpecSeq == InitCmd /\ [][NextSeq]_vars

\* what setStudentData and setCourseData can have stored before the commands
StudentStatuses == {"active", "inactive", "graduated", "withdrawn"}

StudentWorlds ==
  {[s \in {"ST002"} |-> [exists |-> TRUE, status |-> "active"]]}
    \cup {[s \in StudentIds |->
             IF s = "ST001" THEN d ELSE [exists |-> TRUE, status |-> "active"]] :
           d \in [exists : BOOLEAN, status : StudentStatuses]}

OfferingWorlds ==
  {<<>>} \cup {[s \in Semesters |-> o] :
                o \in [offered : BOOLEAN, maxCapacity : {2}, currentEnrollment : {0, 2, 3}]}

CourseWorlds ==
  {<<>>} \cup {[c \in CourseIds |-> [exists |-> e, offerings |-> o]] :
                e \in BOOLEAN, o \in OfferingWorlds}

\* the command handler over the event-sourced repository, with every content
\* of the student and course repositories
InitPrereq ==
  /\ events = <<>>
  /\ snapshots = <<>>
  /\ metadata = <<>>
  /\ config \in [snapshotEnabled : {FALSE}, snapshotInterval : SnapshotIntervals,
                 allowDuplicateEnrollment : {FALSE}, maxCoursesPerSemester : {8}]
  /\ now = 0
  /\ pc = [p \in Procs |-> "idle"]
  /\ loc = [p \in Procs |-> NoLoc]
  /\ res = [p \in Procs |-> None]
  /\ recEvents = <<>>
  /\ recResult = None
  /\ fnArgs = None
  /\ fnResult = None
  /\ repoKind = "eventSourced"
  /\ enrollments = <<>>
  /\ repoEvents = <<>>
  /\ published = <<>>
  /\ notified = <<>>
  /\ students \in StudentWorlds
  /\ courses \in CourseWorlds
  /\ services = "mock"

SpecPrereq == InitPrereq /\ [][NextEventSourced]_vars

\* commands handled one after another for a course whose capacity is smaller
\* than the number of students: setCourseData with maxCapacity 1
SmallCapacity == 1

InitCapacity ==
  /\ events = <<>>
  /\ snapshots = <<>>
  /\ metadata = <<>>
  /\ config \in [snapshotEnabled : {FALSE}, snapshotInterval : SnapshotIntervals,
                 allowDuplicateEnrollment : {FALSE}, maxCoursesPerSemester : {8}]
  /\ now = 0
  /\ pc = [p \in Procs |-> "idle"]
  /\ loc = [p \in Procs |-> NoLoc]
  /\ res = [p \in Procs |-> None]
  /\ recEvents = <<>>
  /\ recResult = None
  /\ fnArgs = None
  /\ fnResult = None
  /\ repoKind \in RepoKinds
  /\ enrollments = <<>>
  /\ repoEvents = <<>>
  /\ published = <<>>
  /\ notified = <<>>
  /\ students = [s \in StudentIds |-> [exists |-> TRUE, status |-> "active"]]
  /\ \E current \in 0..SmallCapacity :
       courses = [c \in CourseIds |->
                   [exists |-> TRUE,
                    offerings |-> [s \in Semesters |->
                                    [offered |-> TRUE, maxCapacity |-> SmallCapacity,
                                     currentEnrollment |-> current]]]]
  /\ services = "mock"

SpecCapacity == InitCapacity /\ [][NextSeq]_vars

\* commands handled one after another under a configuration that allows
\* duplicate enrollments, or does not
InitDuplicates ==
  /\ events = <<>>
  /\ snapshots = <<>>
  /\ metadata = <<>>
  /\ config \in [snapshotEnabled : {FALSE}, snapshotInterval : SnapshotIntervals,
                 allowDuplicateEnrollment : BOOLEAN, maxCoursesPerSemester : {8}]
  /\ now = 0
  /\ pc = [p \in Procs |-> "idle"]
  /\ loc = [p \in Procs |-> NoLoc]
  /\ res = [p \in Procs |-> None]
  /\ recEvents = <<>>
  /\ recResult = None
  /\ fnArgs = None
  /\ fnResult = None
  /\ repoKind \in RepoKinds
  /\ enrollments = <<>>
  /\ repoEvents = <<>>
  /\ published = <<>>
  /\ notified = <<>>
  /\ students = [s \in StudentIds |-> [exists |-> TRUE, status |-> "active"]]
  /\ courses = [c \in CourseIds |->
                 [exists |-> TRUE,
                  offerings |-> [s \in Semesters |->
                                  [offered |-> TRUE, maxCapacity |-> 2,
                                   currentEnrollment |-> 0]]]]
  /\ services = "mock"

SpecDuplicates == InitDuplicates /\ [][NextSeq]_vars

\* commands handled one after another with two courses offered and the
\* smallest limit the configuration schema admits (min(1))
LimitCourseIds == {"CS101", "CS102"}

InitLimit ==
  /\ events = <<>>
  /\ snapshots = <<>>
  /\ metadata = <<>>
  /\ config \in [snapshotEnabled : {FALSE}, snapshotInterval : SnapshotIntervals,
                 allowDuplicateEnrollment : {FALSE}, maxCoursesPerSemester : {1}]
  /\ now = 0
  /\ pc = [p \in Procs |-> "idle"]
  /\ loc = [p \in Procs |-> NoLoc]
  /\ res = [p \in Procs |-> None]
  /\ recEvents = <<>>
  /\ recResult = None
  /\ fnArgs = None
  /\ fnResult = None
  /\ repoKind \in RepoKinds
  /\ enrollments = <<>>
  /\ repoEvents = <<>>
  /\ published = <<>>
  /\ notified = <<>>
  /\ students = [s \in StudentIds |-> [exists |-> TRUE, status |-> "active"]]
  /\ courses = [c \in LimitCourseIds |->
                 [exists |-> TRUE,
                  offerings |-> [s \in Semesters |->
                                  [offered |-> TRUE, maxCapacity |-> 2,
                                   currentEnrollment |-> 0]]]]
  /\ services = "mock"

SpecLimit == InitLimit /\ [][NextSeq]_vars


\* =====================================================================
\* Claims checked on the event store (Spec)
\* =====================================================================

\* two append calls that have returned, were on the same stream with the same
\* expectedVersion, and each read a current version equal to it: with
\* non-empty batches that is possible only when their steps interleaved
Raced(p, q) ==
  /\ p # q
  /\ pc[p] = "returned" /\ pc[q] = "returned"
  /\ loc[p].op = "append" /\ loc[q].op = "append"
  /\ loc[p].streamId = loc[q].streamId
  /\ loc[p].expectedVersion = loc[q].expectedVersion
  /\ loc[p].currentVersion = loc[p].expectedVersion
  /\ loc[q].currentVersion = loc[q].expectedVersion
  /\ Len(loc[p].events) > 0 /\ Len(loc[q].events) > 0

\* C1: of two appends on one stream that raced with the same expectedVersion
\* exactly one succeeds, the other returns ConcurrencyError whose actualVersion
\* is the version the winner wrote, and the stream holds one event per version
\* the winner wrote.
C1_ExactlyOneWins ==
  \A p, q \in Procs :
    Raced(p, q) /\ res[p].success =>
      /\ ~res[q].success
      /\ res[q].error.type = "ConcurrencyError"
      /\ res[q].error.actualVersion = loc[p].expectedVersion + Len(loc[p].events)
      /\ \A v \in (loc[p].expectedVersion + 1)..(loc[p].expectedVersion + Len(loc[p].events)) :
            Cardinality({i \in 1..Len(StreamEvents(loc[p].streamId)) :
                           StreamEvents(loc[p].streamId)[i].version = v}) = 1

\* C3: in every stream the stored event at index i (0-based) has version
\* i + 1, and getCurrentVersion equals the number of stored events.
C3_VersionContiguity ==
  \A s \in DOMAIN events :
    /\ \A i \in 1..Len(events[s]) : events[s][i].version = i
    /\ \A i \in 1..Len(events[s]) : events[s][i].event.version = i
    /\ getCurrentVersion(s) = Len(events[s])

\* C4: an append whose expectedVersion differs from the current version of the
\* stream (read when append is called) returns ConcurrencyError carrying the
\* expected and that current version, and changes neither the events nor the
\* metadata nor the snapshots.
C4_ConflictStep(p) ==
  /\ pc[p] = "idle" /\ pc'[p] = "append_version" =>
        /\ loc'[p].currentVersion =
             (IF Len(StreamEvents(loc'[p].streamId)) = 0 THEN 0
              ELSE Max({StreamEvents(loc'[p].streamId)[i].version :
                          i \in 1..Len(StreamEvents(loc'[p].streamId))}))
        /\ events' = events /\ metadata' = metadata /\ snapshots' = snapshots
  /\ pc[p] = "append_version" /\ pc'[p] # "append_version"
       /\ loc[p].currentVersion # loc[p].expectedVersion =>
        /\ pc'[p] = "returned"
        /\ res'[p] = [success |-> FALSE,
                      error |-> [type |-> "ConcurrencyError",
                                 code |-> "CONCURRENCY_ERROR",
                                 expectedVersion |-> loc[p].expectedVersion,
                                 actualVersion |-> loc[p].currentVersion,
                                 entityId |-> loc[p].streamId]]
        /\ events' = events /\ metadata' = metadata /\ snapshots' = snapshots

C4_ConflictAppendsNothing == [][\A p \in Procs : C4_ConflictStep(p)]_vars

\* a conflict has been returned for a non-empty batch against a stream that
\* holds events, with an expectedVersion below and one above the actual version
C4_Witness ==
  \E p \in Procs :
    /\ pc[p] = "returned" /\ loc[p].op = "append" /\ ~res[p].success
    /\ Len(loc[p].events) > 0
    /\ res[p].error.expectedVersion = 1
    /\ res[p].error.actualVersion >= 2
    /\ Len(StreamEvents(loc[p].streamId)) >= 2

\* C5: an append on a stream whose current version equals expectedVersion
\* stores the batch after the old events, gives the i-th event (0-based)
\* version expectedVersion + i + 1 whatever version the caller put on it, and
\* afterwards getCurrentVersion is expectedVersion + batch length and
\* getEvents is the old events followed by the new ones.
C5_WriteStep(p) ==
  /\ pc[p] = "append_version" /\ pc'[p] = "append_metadata"
  /\ getCurrentVersion(loc[p].streamId) = loc[p].expectedVersion
  => LET s == loc[p].streamId
         e == loc[p].expectedVersion
         batch == loc[p].events
         old == StreamEvents(s)
         new == events'[s]
         stored == [i \in 1..Len(batch) |-> new[Len(old) + i]]
     IN /\ Len(new) = Len(old) + Len(batch)
        /\ IsPrefix(old, new)
        /\ \A i \in 1..Len(batch) :
              /\ stored[i].version = e + (i - 1) + 1
              /\ stored[i].event.version = e + (i - 1) + 1
              /\ \A f \in DOMAIN batch[i] \ {"version"} :
                    stored[i].event[f] = batch[i][f]
        /\ MaxVersion(new) = e + Len(batch)
        /\ EventsFrom(new, 1) = EventsFrom(old, 1) \o [i \in 1..Len(batch) |-> stored[i].event]

C5_AppendAssignsVersions == [][\A p \in Procs : C5_WriteStep(p)]_vars

\* a batch of two has just been stored after an existing event, and the caller
\* had put other versions on its events than the ones assigned
C5_Witness ==
  \E p \in Procs :
    /\ pc[p] = "append_metadata"
    /\ Len(loc[p].events) = 2
    /\ loc[p].expectedVersion >= 1
    /\ getCurrentVersion(loc[p].streamId) = loc[p].expectedVersion + 2
    /\ \A i \in 1..2 : loc[p].events[i].version # loc[p].expectedVersion + i

\* C6: the event log is append-only: in every step the events of every stream
\* are a prefix of its events after the step.
C6_AppendOnly ==
  [][\A s \in DOMAIN events :
        s \in DOMAIN events' /\ IsPrefix(events[s], events'[s])]_vars

\* a snapshot has been taken by an append on a stream that holds two events
\* or more and a later append has stored a further event
C6_Witness ==
  \E s \in DOMAIN events :
    /\ Len(events[s]) >= 3
    /\ SnapshotKey("Enrollment", s) \in DOMAIN snapshots
    /\ snapshots[SnapshotKey("Enrollment", s)].version = 2

\* =====================================================================
\* reconstructEnrollmentFromEvents as a function of its argument (SpecRec)
\* =====================================================================

\* event kinds a list handed to reconstructEnrollmentFromEvents can hold: the
\* one kind of the schema and a kind outside it
RecEventTypes == {"EnrollmentRequested", "InvalidEventType"}

RecEvents ==
  [eventType : RecEventTypes, studentId : {"ST001"}, courseId : CourseIds,
   version : 1..MaxRecLen, occurredAt : {0},
   data : [semester : Semesters, requestedAt : {0, 1}]]

RecEventLists == UNION {[1..n -> RecEvents] : n \in 0..MaxRecLen}

InitRec ==
  /\ events = <<>>
  /\ snapshots = <<>>
  /\ metadata = <<>>
  /\ config \in [snapshotEnabled : {FALSE}, snapshotInterval : SnapshotIntervals,
                 allowDuplicateEnrollment : {FALSE}, maxCoursesPerSemester : {8}]
  /\ now = 0
  /\ pc = [p \in Procs |-> "idle"]
  /\ loc = [p \in Procs |-> NoLoc]
  /\ res = [p \in Procs |-> None]
  /\ recEvents \in RecEventLists
  /\ recResult = None
  /\ fnArgs = None
  /\ fnResult = None
  /\ repoKind = "eventSourced"
  /\ enrollments = <<>>
  /\ repoEvents = <<>>
  /\ published = <<>>
  /\ notified = <<>>
  /\ students = <<>>
  /\ courses = <<>>
  /\ services = "mock"

Reconstruct ==
  /\ recResult = None
  /\ recResult' = reconstructEnrollmentFromEvents(recEvents)
  /\ UNCHANGED <<events, snapshots, metadata, config, now, pc, loc, res, recEvents>>
  /\ UNCHANGED <<repoVars, serviceVars, fnArgs, fnResult>>

NextRec == Reconstruct

SpecRec == InitRec /\ [][NextRec]_vars

\* --------------------------------------------------------- stream id codec
IdentityTexts == [studentId : IdTexts, courseId : IdTexts, semester : SemesterTexts]

InitIds ==
  /\ events = <<>>
  /\ snapshots = <<>>
  /\ metadata = <<>>
  /\ config \in [snapshotEnabled : {FALSE}, snapshotInterval : SnapshotIntervals,
                 allowDuplicateEnrollment : {FALSE}, maxCoursesPerSemester : {8}]
  /\ now = 0
  /\ pc = [p \in Procs |-> "idle"]
  /\ loc = [p \in Procs |-> NoLoc]
  /\ res = [p \in Procs |-> None]
  /\ recEvents = <<>>
  /\ recResult = None
  /\ fnArgs \in IdentityTexts
  /\ fnResult = None
  /\ repoKind = "eventSourced"
  /\ enrollments = <<>>
  /\ repoEvents = <<>>
  /\ published = <<>>
  /\ notified = <<>>
  /\ students = <<>>
  /\ courses = <<>>
  /\ services = "mock"

\* parseEnrollmentStreamId(createEnrollmentStreamId(studentId, courseId, semester))
CreateAndParse ==
  /\ fnResult = None
  /\ LET streamId == createEnrollmentStreamId(fnArgs.studentId, fnArgs.courseId,
                                              fnArgs.semester)
     IN fnResult' = [streamId |-> streamId, parsed |-> parseEnrollmentStreamId(streamId)]
  /\ UNCHANGED <<events, snapshots, metadata, config, now, pc, loc, res>>
  /\ UNCHANGED <<recEvents, recResult, fnArgs, repoVars, serviceVars>>

NextIds == CreateAndParse

SpecIds == InitIds /\ [][NextIds]_vars

\* ------------------------------------------------------ requestEnrollment
\* the sets with no element (the key is undefined) or one record with key k
Optional(k, values) == {<<>>} \cup {[x \in {k} |-> v] : v \in values}

RequestOptions ==
  {Merge(Merge(a, b), c) :
     a \in Optional("correlationId", {"123e4567-e89b-12d3-a456-426614174000", "c-1"}),
     b \in Optional("causationId", {"987fcdeb-51a2-43c1-b9e5-123456789abc"}),
     c \in Optional("metadata", {[reason |-> "graduation requirement"]})}

RequestInputs ==
  [studentId : IdTexts \cup {"", "st-1"}, courseId : {"CS101", "cs"},
   semester : SemesterTexts \cup {"2025-winter"}, options : RequestOptions]

InitRequest ==
  /\ events = <<>>
  /\ snapshots = <<>>
  /\ metadata = <<>>
  /\ config \in [snapshotEnabled : {FALSE}, snapshotInterval : SnapshotIntervals,
                 allowDuplicateEnrollment : {FALSE}, maxCoursesPerSemester : {8}]
  /\ now \in 0..MaxClock
  /\ pc = [p \in Procs |-> "idle"]
  /\ loc = [p \in Procs |-> NoLoc]
  /\ res = [p \in Procs |-> None]
  /\ recEvents = <<>>
  /\ recResult = None
  /\ fnArgs \in RequestInputs
  /\ fnResult = None
  /\ repoKind = "eventSourced"
  /\ enrollments = <<>>
  /\ repoEvents = <<>>
  /\ published = <<>>
  /\ notified = <<>>
  /\ students = <<>>
  /\ courses = <<>>
  /\ services = "mock"

\* requestEnrollment(studentId, courseId, semester, options)
RequestEnrollment ==
  /\ fnResult = None
  /\ \E t2 \in now..MaxClock :
       /\ fnResult' = requestEnrollment(fnArgs.studentId, fnArgs.courseId,
                                        fnArgs.semester, fnArgs.options, now, t2)
       /\ now' = t2
  /\ UNCHANGED <<events, snapshots, metadata, config, pc, loc, res>>
  /\ UNCHANGED <<recEvents, recResult, fnArgs, repoVars, serviceVars>>

NextRequest == RequestEnrollment

SpecRequest == InitRequest /\ [][NextRequest]_vars

\* requestEnrollment called while a configuration with the given
\* validation.allowedSemesterRange is in effect (pastYears and futureYears
\* are numbers from 0 to 5; MINIMAL_CONFIG has 0 and 1, the default 1 and 1)
AllowedSemesterRanges == [pastYears : 0..2, futureYears : 0..2]

RangeInputs ==
  [studentId : {"A"}, courseId : {"CS101"}, semester : SemesterTexts,
   options : {<<>>}, allowedSemesterRange : AllowedSemesterRanges]

InitRange ==
  /\ events = <<>>
  /\ snapshots = <<>>
  /\ metadata = <<>>
  /\ config \in [snapshotEnabled : {FALSE}, snapshotInterval : SnapshotIntervals,
                 allowDuplicateEnrollment : {FALSE}, maxCoursesPerSemester : {8}]
  /\ now \in 0..MaxClock
  /\ pc = [p \in Procs |-> "idle"]
  /\ loc = [p \in Procs |-> NoLoc]
  /\ res = [p \in Procs |-> None]
  /\ recEvents = <<>>
  /\ recResult = None
  /\ fnArgs \in RangeInputs
  /\ fnResult = None
  /\ repoKind = "eventSourced"
  /\ enrollments = <<>>
  /\ repoEvents = <<>>
  /\ published = <<>>
  /\ notified = <<>>
  /\ students = <<>>
  /\ courses = <<>>
  /\ services = "mock"

NextRange == RequestEnrollment

SpecRange == InitRange /\ [][NextRange]_vars

\* ------------------------------------------------------------------ retry
\* the largest maxAttempts a caller passes
MaxAttempts == 3

\* the results an operation can resolve with
OperationResults ==
  {Ok("data"), Err([type |-> "VALIDATION_ERROR"]), Err([type |-> "FATAL_ERROR"])}

\* options.shouldRetry: the default () => true, or a predicate on the error
ShouldRetryOptions == {"default", "validationErrorsOnly"}

shouldRetry(option, error) ==
  IF option = "default" THEN TRUE ELSE error.type = "VALIDATION_ERROR"

\* retry(operation, options) up to the first await: attempt 1 calls operation
RetryCall(p) ==
  /\ pc[p] = "idle"
  /\ \E maxAttempts \in 1..MaxAttempts, option \in ShouldRetryOptions :
       loc' = [loc EXCEPT ![p] = [op |-> "retry", maxAttempts |-> maxAttempts,
                                  shouldRetry |-> option, attempt |-> 1,
                                  invoked |-> 1, results |-> <<>>]]
  /\ pc' = [pc EXCEPT ![p] = "r_operation"]
  /\ res' = [res EXCEPT ![p] = None]
  /\ UNCHANGED <<storeVars, config, now>>
  /\ UNCHANGED otherVars

RetryResult_ignoresShouldRetry(p) ==
  /\ pc[p] = "r_operation"
  /\ \E result \in OperationResults :
       LET frame == [results |-> Append(loc[p].results, result)]
       IN IF result.success
          THEN /\ loc' = [loc EXCEPT ![p] = Merge(@, frame)]
               /\ pc' = [pc EXCEPT ![p] = "returned"]
               /\ res' = [res EXCEPT ![p] = result]
          ELSE IF loc[p].attempt = loc[p].maxAttempts
          THEN /\ loc' = [loc EXCEPT ![p] = Merge(@, frame)]
               /\ pc' = [pc EXCEPT ![p] = "returned"]
               /\ res' = [res EXCEPT ![p] = result]
          ELSE Goto(p, "r_delay", frame)
  /\ UNCHANGED <<storeVars, config, now>>
  /\ UNCHANGED otherVars

\* the loop body after await operation(): return, or wait for the delay
RetryResult(p) ==
  /\ pc[p] = "r_operation"
  /\ \E result \in OperationResults :
       LET frame == [results |-> Append(loc[p].results, result)]
       IN IF result.success
          THEN /\ loc' = [loc EXCEPT ![p] = Merge(@, frame)]
               /\ pc' = [pc EXCEPT ![p] = "returned"]
               /\ res' = [res EXCEPT ![p] = result]
          ELSE IF \/ loc[p].attempt = loc[p].maxAttempts
                  \/ ~shouldRetry(loc[p].shouldRetry, result.error)
          THEN /\ loc' = [loc EXCEPT ![p] = Merge(@, frame)]
               /\ pc' = [pc EXCEPT ![p] = "returned"]
               /\ res' = [res EXCEPT ![p] = result]
          ELSE Goto(p, "r_delay", frame)
  /\ UNCHANGED <<storeVars, config, now>>
  /\ UNCHANGED otherVars

\* the timer of the delay fires: attempt++ and, while attempt <= maxAttempts,
\* the next call of operation; otherwise the return after the loop
RetryDelay(p) ==
  /\ pc[p] = "r_delay"
  /\ IF loc[p].attempt + 1 <= loc[p].maxAttempts
     THEN Goto(p, "r_operation", [attempt |-> loc[p].attempt + 1,
                                  invoked |-> loc[p].invoked + 1])
     ELSE /\ pc' = [pc EXCEPT ![p] = "returned"]
          /\ res' = [res EXCEPT ![p] = loc[p].results[Len(loc[p].results)]]
          /\ loc' = [loc EXCEPT ![p] = Merge(@, [attempt |-> loc[p].attempt + 1])]
  /\ UNCHANGED <<storeVars, config, now>>
  /\ UNCHANGED otherVars

InitRetry ==
  /\ events = <<>>
  /\ snapshots = <<>>
  /\ metadata = <<>>
  /\ config \in [snapshotEnabled : {FALSE}, snapshotInterval : SnapshotIntervals,
                 allowDuplicateEnrollment : {FALSE}, maxCoursesPerSemester : {8}]
  /\ now = 0
  /\ pc = [p \in Procs |-> "idle"]
  /\ loc = [p \in Procs |-> NoLoc]
  /\ res = [p \in Procs |-> None]
  /\ recEvents = <<>>
  /\ recResult = None
  /\ fnArgs = None
  /\ fnResult = None
  /\ repoKind = "eventSourced"
  /\ enrollments = <<>>
  /\ repoEvents = <<>>
  /\ published = <<>>
  /\ notified = <<>>
  /\ students = <<>>
  /\ courses = <<>>
  /\ services = "mock"

NextRetry ==
  \/ \E p \in Procs : RetryCall(p)
  \/ \E p \in Procs : RetryResult(p)
  \/ \E p \in Procs : RetryDelay(p)
  \/ \E p \in Procs : Resume(p)

SpecRetry == InitRetry /\ [][NextRetry]_vars

\* ------------------------------------------------------------------- race
\* the largest number of operations handed to race
MaxOperations == 2

\* how the promise of operation i can settle: fulfilled with a success that
\* carries the operation's own data, fulfilled with a failure, or rejected
Settlements(i) ==
  {[status |-> "fulfilled", value |-> Ok(i)],
   [status |-> "fulfilled", value |-> Err([type |-> "FAILED", operation |-> i])],
   [status |-> "rejected", reason |-> [type |-> "THROWN", operation |-> i]]}

\* race(operations) up to await Promise.allSettled: every operation is called
RaceCall(p) ==
  /\ pc[p] = "idle"
  /\ \E n \in 1..MaxOperations :
       loc' = [loc EXCEPT ![p] = [op |-> "race", operations |-> n,
                                  settled |-> <<>>, order |-> <<>>]]
  /\ pc' = [pc EXCEPT ![p] = "race_allSettled"]
  /\ res' = [res EXCEPT ![p] = None]
  /\ UNCHANGED <<storeVars, config, now>>
  /\ UNCHANGED otherVars

\* the promise of one operation settles; order records the operations in the
\* order of their completion
OperationSettles(p) ==
  /\ pc[p] = "race_allSettled"
  /\ \E i \in (1..loc[p].operations) \ DOMAIN loc[p].settled :
       \E s \in Settlements(i) :
         Goto(p, "race_allSettled",
              [settled |-> [k \in DOMAIN loc[p].settled \cup {i} |->
                              IF k = i THEN s ELSE loc[p].settled[k]],
               order |-> Append(loc[p].order, i)])
  /\ UNCHANGED <<storeVars, config, now>>
  /\ UNCHANGED otherVars

\* the errors race collects: in the order of the operations array
RECURSIVE RaceErrors(_, _)
RaceErrors(results, i) ==
  IF i > Cardinality(DOMAIN results) THEN <<>>
  ELSE LET rest == RaceErrors(results, i + 1)
       IN IF results[i].status = "fulfilled"
          THEN IF ~results[i].value.success THEN <<results[i].value.error>> \o rest
               ELSE rest
          ELSE <<results[i].reason>> \o rest

\* the body of race after Promise.allSettled
raceResult(results) ==
  LET successes == {i \in DOMAIN results :
                      results[i].status = "fulfilled" /\ results[i].value.success}
  IN IF successes # {}
     THEN results[CHOOSE i \in successes : \A j \in successes : i <= j].value
     ELSE Err(RaceErrors(results, 1))

\* Promise.allSettled resolves once every promise has settled
RaceReturn(p) ==
  /\ pc[p] = "race_allSettled"
  /\ DOMAIN loc[p].settled = 1..loc[p].operations
  /\ Return(p, raceResult(loc[p].settled))
  /\ UNCHANGED <<storeVars, config, now>>
  /\ UNCHANGED otherVars

NextRace ==
  \/ \E p \in Procs : RaceCall(p)
  \/ \E p \in Procs : OperationSettles(p)
  \/ \E p \in Procs : RaceReturn(p)
  \/ \E p \in Procs : Resume(p)

\* no call of retry or race is in progress at the start
SpecRace == InitRetry /\ [][NextRace]_vars

\* ------------------------------------------------------------ ConfigLoader
\* A configuration is written as the record of its leaves, keyed by path:
\* deepMerge descends into nested objects and overwrites leaves, which on
\* this form is the override of the target's keys by the source's.
DEFAULT_ENROLLMENT_CONFIG ==
  [environment |-> "development",
   retryMaxAttempts |-> 3,
   timeoutDefaultMs |-> 30000,
   snapshotEnabled |-> FALSE,
   snapshotInterval |-> 10,
   maxCoursesPerSemester |-> 8,
   loggingLevel |-> "info"]

DEVELOPMENT_CONFIG ==
  [environment |-> "development", retryMaxAttempts |-> 2, timeoutDefaultMs |-> 10000,
   loggingLevel |-> "debug"]

TEST_CONFIG ==
  [environment |-> "test", retryMaxAttempts |-> 1, timeoutDefaultMs |-> 5000,
   loggingLevel |-> "warn"]

PRODUCTION_CONFIG ==
  [environment |-> "production", retryMaxAttempts |-> 5, timeoutDefaultMs |-> 60000,
   snapshotEnabled |-> TRUE, snapshotInterval |-> 50, loggingLevel |-> "info"]

\* parseInt(text, 10) of a text of one digit
parseInt(text) == CHOOSE n \in 0..9 : Digit(n) = text

\* process.env: every variable is either unset or one of the texts
EnvironmentVariables ==
  {Merge(Merge(Merge(a, b), Merge(c, e)), f) :
     a \in Optional("ENROLLMENT_ENVIRONMENT",
                    {"development", "test", "staging", "production"}),
     b \in Optional("ENROLLMENT_MAX_RETRY_ATTEMPTS", {"4"}),
     c \in Optional("ENROLLMENT_SNAPSHOT_ENABLED", {"true", "false"}),
     e \in Optional("ENROLLMENT_MAX_COURSES_PER_SEMESTER", {"6"}),
     f \in Optional("ENROLLMENT_LOG_LEVEL", {"error"})}

\* the part of the configuration one environment variable supplies
FromVariable(env, name, key, value) ==
  IF name \in DOMAIN env THEN [k \in {key} |-> value] ELSE <<>>

loadFromEnvironment(env) ==
  LET get(name) == IF name \in DOMAIN env THEN env[name] ELSE ""
  IN Merge(Merge(Merge(
       FromVariable(env, "ENROLLMENT_ENVIRONMENT", "environment",
                    get("ENROLLMENT_ENVIRONMENT")),
       FromVariable(env, "ENROLLMENT_MAX_RETRY_ATTEMPTS", "retryMaxAttempts",
                    parseInt(get("ENROLLMENT_MAX_RETRY_ATTEMPTS")))),
       Merge(
       FromVariable(env, "ENROLLMENT_MAX_COURSES_PER_SEMESTER", "maxCoursesPerSemester",
                    parseInt(get("ENROLLMENT_MAX_COURSES_PER_SEMESTER"))),
       FromVariable(env, "ENROLLMENT_SNAPSHOT_ENABLED", "snapshotEnabled",
                    get("ENROLLMENT_SNAPSHOT_ENABLED") = "true"))),
       FromVariable(env, "ENROLLMENT_LOG_LEVEL", "loggingLevel",
                    get("ENROLLMENT_LOG_LEVEL")))

getEnvironmentPreset(environment) ==
  CASE environment = "development" -> DEVELOPMENT_CONFIG
    [] environment = "test" -> TEST_CONFIG
    [] environment = "production" -> PRODUCTION_CONFIG
    [] OTHER -> <<>>

deepMerge(target, source) ==
  [k \in DOMAIN target \cup DOMAIN source |->
     IF k \in DOMAIN source THEN source[k] ELSE target[k]]

\* EnrollmentConfigSchema.safeParse(input).success on the modelled leaves
validateConfig(input) ==
  /\ input.environment \in {"development", "test", "staging", "production"}
  /\ input.retryMaxAttempts \in 1..10
  /\ input.maxCoursesPerSemester \in 1..50
  /\ input.loggingLevel \in {"debug", "info", "warn", "error"}

\* ConfigLoader.load() without overrides
load(env) ==
  LET envConfig == loadFromEnvironment(env)
      merged == deepMerge(DEFAULT_ENROLLMENT_CONFIG, envConfig)
      loaded == deepMerge(merged, getEnvironmentPreset(merged.environment))
  IN IF validateConfig(loaded) THEN [success |-> TRUE, config |-> loaded]
     ELSE [success |-> FALSE, partialConfig |-> loaded]

InitConfig ==
  /\ events = <<>>
  /\ snapshots = <<>>
  /\ metadata = <<>>
  /\ config \in [snapshotEnabled : {FALSE}, snapshotInterval : SnapshotIntervals,
                 allowDuplicateEnrollment : {FALSE}, maxCoursesPerSemester : {8}]
  /\ now = 0
  /\ pc = [p \in Procs |-> "idle"]
  /\ loc = [p \in Procs |-> NoLoc]
  /\ res = [p \in Procs |-> None]
  /\ recEvents = <<>>
  /\ recResult = None
  /\ fnArgs \in [env : EnvironmentVariables]
  /\ fnResult = None
  /\ repoKind = "eventSourced"
  /\ enrollments = <<>>
  /\ repoEvents = <<>>
  /\ published = <<>>
  /\ notified = <<>>
  /\ students = <<>>
  /\ courses = <<>>
  /\ services = "mock"

\* ConfigLoader.getInstance().load()
Load ==
  /\ fnResult = None
  /\ fnResult' = load(fnArgs.env)
  /\ UNCHANGED <<events, snapshots, metadata, config, now, pc, loc, res>>
  /\ UNCHANGED <<recEvents, recResult, fnArgs, repoVars, serviceVars>>

NextConfig == Load

SpecConfig == InitConfig /\ [][NextConfig]_vars

\* the call returned Ok
Succeeded(result) == "success" \in DOMAIN result /\ result.success

\* C19: a successful requestEnrollment returns a Requested state with version
\* 1 together with an EnrollmentRequested event with version 1 whose studentId,
\* courseId and semester equal the state's and whose correlationId, causationId
\* and metadata are the supplied options (absent when not supplied); a call
\* that did not succeed returns neither state nor event.
C19_StateAndEventTogether ==
  fnResult # None =>
    IF Succeeded(fnResult)
    THEN LET enrollment == RestOfEnrollment(fnResult.data)
             domainEvent == fnResult.data.domainEvent
         IN /\ enrollment.status = "requested"
            /\ enrollment.version = 1
            /\ domainEvent.eventType = "EnrollmentRequested"
            /\ domainEvent.version = 1
            /\ domainEvent.studentId = enrollment.studentId
            /\ domainEvent.courseId = enrollment.courseId
            /\ domainEvent.data.semester = enrollment.semester
            /\ Pick(domainEvent, {"correlationId", "causationId"})
                 = Pick(fnArgs.options, {"correlationId", "causationId"})
            /\ Pick(domainEvent.data, {"metadata"}) = Pick(fnArgs.options, {"metadata"})
    ELSE DOMAIN fnResult \cap {"data", "domainEvent"} = {}

\* a call with all three options has succeeded
C19_Witness ==
  /\ fnResult # None
  /\ Succeeded(fnResult)
  /\ DOMAIN fnArgs.options = OptionKeys

\* C20: requestEnrollment accepts a well-formed semester only if its year y
\* satisfies currentYear - 1 <= y <= currentYear + 1; called with well-formed
\* ids and a semester of year y <= currentYear - 2 or y >= currentYear + 2 it
\* returns a BusinessRuleError with rule INVALID_SEMESTER_RANGE and code
\* SEMESTER_OUT_OF_RANGE.
C20_SemesterYearWindow ==
  fnResult # None =>
    \A y \in SemesterYears, season \in Seasons :
      fnArgs.semester = YearText(y) \o "-" \o season =>
        /\ Succeeded(fnResult) => (CurrentYear - 1 <= y /\ y <= CurrentYear + 1)
        /\ (/\ StudentIdSchema(fnArgs.studentId)
            /\ CourseIdSchema(fnArgs.courseId)
            /\ (y <= CurrentYear - 2 \/ y >= CurrentYear + 2))
           => /\ "success" \in DOMAIN fnResult
              /\ ~fnResult.success
              /\ fnResult.error.type = "BusinessRuleError"
              /\ fnResult.error.rule = "INVALID_SEMESTER_RANGE"
              /\ fnResult.error.code = "SEMESTER_OUT_OF_RANGE"

\* a call with well-formed ids for the first year after the window has been
\* rejected
C20_Witness ==
  /\ fnResult # None
  /\ StudentIdSchema(fnArgs.studentId)
  /\ CourseIdSchema(fnArgs.courseId)
  /\ fnArgs.semester = YearText(CurrentYear + 2) \o "-fall"
  /\ ~Succeeded(fnResult)

\* C18: the stream id is a collision-free encoding of the identity triple:
\* no other valid triple is mapped to the stream id produced for a valid
\* triple, and parseEnrollmentStreamId applied to the produced id returns the
\* triple.
C18_StreamIdRoundTrip ==
  fnResult # None =>
    /\ \A id \in IdentityTexts :
         createEnrollmentStreamId(id.studentId, id.courseId, id.semester)
           = fnResult.streamId => id = fnArgs
    /\ fnResult.parsed = fnArgs

\* a triple whose ids have different lengths and share their characters has
\* been encoded and parsed
C18_Witness ==
  /\ fnResult # None
  /\ fnResult.parsed # None
  /\ Len(fnArgs.studentId) < Len(fnArgs.courseId)
  /\ fnArgs.studentId \o "0" = fnArgs.courseId

\* C8: the version of the state reconstructed from a stream equals the length
\* of the stream.
C8_ReconstructedVersion ==
  \A s \in DOMAIN events :
    LET r == reconstructEnrollmentFromEvents(getEvents(s, 1))
    IN r.success /\ r.data # None => r.data.version = Len(events[s])

\* the versions of a list are exactly 1..n, each once
VersionsContiguous(evs) ==
  \A v \in 1..Len(evs) : Cardinality({i \in 1..Len(evs) : evs[i].version = v}) = 1

\* a non-empty list that is no well-formed stream: its versions are not
\* exactly 1..n, or its version-1 event is not the creation kind
Malformed(evs) ==
  /\ Len(evs) > 0
  /\ \/ ~VersionsContiguous(evs)
     \/ \E i \in 1..Len(evs) :
          evs[i].version = 1 /\ evs[i].eventType # "EnrollmentRequested"

\* C9: reconstruction of a malformed non-empty list (a gap, a duplicate
\* version, a first version other than 1, or a version-1 event that is not
\* EnrollmentRequested) is an error with code INVALID_EVENT_SEQUENCE.
C9_MalformedIsRejected ==
  recResult # None /\ Malformed(recEvents) =>
    /\ ~recResult.success
    /\ recResult.error.code = "INVALID_EVENT_SEQUENCE"

\* the list with versions [1, 3] has been rejected
C9_Witness ==
  /\ recResult # None
  /\ Len(recEvents) = 2
  /\ recEvents[1].version = 1 /\ recEvents[2].version = 3
  /\ recEvents[1].eventType = "EnrollmentRequested"
  /\ recEvents[2].eventType = "EnrollmentRequested"
  /\ ~recResult.success

\* the transition graph: the event kinds that may be applied to a state variant
AllowedEvents(status) ==
  CASE status = "requested" -> {"EnrollmentApproved", "EnrollmentCancelled"}
    [] status = "approved" -> {"EnrollmentCancelled", "EnrollmentCompleted",
                               "EnrollmentFailed"}
    [] OTHER -> {}

\* C10: an event whose kind the transition graph does not allow for the
\* state it is applied to makes the state machine return
\* INVALID_STATE_TRANSITION: a well-versioned list whose second event is not
\* allowed after Requested is never reconstructed to a state.
C10_TransitionClosure ==
  LET sorted == sortEventsByVersion(recEvents)
  IN /\ recResult # None
     /\ Len(sorted) >= 2
     /\ VersionsContiguous(sorted)
     /\ sorted[1].eventType = "EnrollmentRequested"
     /\ sorted[2].eventType \notin AllowedEvents("requested")
     => /\ ~recResult.success
        /\ recResult.error.code = "INVALID_STATE_TRANSITION"

\* ================================================================
\* The enrollment repositories called directly: save(enrollment, event)
\* ================================================================

\* the versions of the states a caller hands to save
StateVersions == 1..MaxEvents

\* the version the repository finds stored for the aggregate when save is
\* called: the cached state's version, or the stream's current version
StoredVersion(id) ==
  LET aggregateId == generateAggregateId(id.studentId, id.courseId, id.semester)
  IN IF repoKind = "memory"
     THEN IF aggregateId \in DOMAIN enrollments THEN enrollments[aggregateId].version
          ELSE 0
     ELSE getCurrentVersion(StreamIdOf(id))

\* save(enrollment, domainEvent) up to its first await; saveInMemory has none
SaveCall(p) ==
  /\ pc[p] = "idle"
  /\ \E id \in Identities, version \in StateVersions :
       LET enrollment == [studentId |-> id.studentId, courseId |-> id.courseId,
                          semester |-> id.semester, status |-> "requested",
                          requestedAt |-> 0, version |-> version]
           domainEvent == createEnrollmentRequestedEvent(id.studentId, id.courseId,
                                                         id.semester, version, <<>>, 0)
           aggregateId == generateAggregateId(id.studentId, id.courseId, id.semester)
           frame == [op |-> "save", enrollment |-> enrollment,
                     domainEvent |-> domainEvent, storedVersion |-> StoredVersion(id)]
       IN IF repoKind = "memory"
          THEN /\ pc' = [pc EXCEPT ![p] = "returned"]
               /\ loc' = [loc EXCEPT ![p] = frame]
               /\ IF saveInMemoryConflict(aggregateId, enrollment)
                  THEN /\ res' = [res EXCEPT ![p] =
                                   Err(createConcurrencyError(
                                         enrollment.version,
                                         enrollments[aggregateId].version,
                                         aggregateId))]
                       /\ UNCHANGED <<enrollments, repoEvents>>
                  ELSE /\ res' = [res EXCEPT ![p] = Ok(None)]
                       /\ repoEvents' =
                            [k \in DOMAIN repoEvents \cup {aggregateId} |->
                               IF k = aggregateId
                               THEN Append(IF k \in DOMAIN repoEvents
                                           THEN repoEvents[k] ELSE <<>>, domainEvent)
                               ELSE repoEvents[k]]
                       /\ enrollments' =
                            [k \in DOMAIN enrollments \cup {aggregateId} |->
                               IF k = aggregateId THEN enrollment ELSE enrollments[k]]
          ELSE /\ Stored + Pending + 1 <= MaxEvents
               /\ pc' = [pc EXCEPT ![p] = "append_version"]
               /\ loc' = [loc EXCEPT ![p] =
                           Merge(frame,
                                 [streamId |-> StreamIdOf(id),
                                  events |-> <<domainEvent>>,
                                  expectedVersion |-> enrollment.version - 1,
                                  currentVersion |-> getCurrentVersion(StreamIdOf(id))])]
               /\ res' = [res EXCEPT ![p] = None]
               /\ UNCHANGED <<enrollments, repoEvents>>
  /\ UNCHANGED <<storeVars, config, now, repoKind>>
  /\ UNCHANGED <<recVars, serviceVars>>

\* saveWithEventStore after stream.appendEvents: the cache is set on success
SaveCache(p) ==
  /\ pc[p] = "s_cache"
  /\ LET enrollment == loc[p].enrollment
         aggregateId == generateAggregateId(enrollment.studentId, enrollment.courseId,
                                            enrollment.semester)
     IN IF ~loc[p].appendResult.success
        THEN /\ res' = [res EXCEPT ![p] = loc[p].appendResult]
             /\ UNCHANGED enrollments
        ELSE /\ res' = [res EXCEPT ![p] = Ok(None)]
             /\ enrollments' = [k \in DOMAIN enrollments \cup {aggregateId} |->
                                  IF k = aggregateId THEN enrollment ELSE enrollments[k]]
  /\ pc' = [pc EXCEPT ![p] = "returned"]
  /\ UNCHANGED <<storeVars, config, now, loc, repoKind, repoEvents>>
  /\ UNCHANGED <<recVars, serviceVars>>

\* ------------------------------------------------ GetEnrollmentQueryHandler
Queries == Commands

\* GetEnrollmentQuerySchema.safeParse(query).success
GetEnrollmentQuerySchema(query) ==
  /\ query.studentId # ""
  /\ query.courseId # ""
  /\ query.semester # ""

\* handle(query) up to the first await of the repository's find
QueryCall(p) ==
  /\ pc[p] = "idle"
  /\ \E query \in Queries :
       LET frame == [op |-> "query", query |-> query]
       IN IF ~GetEnrollmentQuerySchema(query)
          THEN /\ pc' = [pc EXCEPT ![p] = "returned"]
               /\ loc' = [loc EXCEPT ![p] = frame]
               /\ res' = [res EXCEPT ![p] = Err(mapErrorToResponse(
                            createValidationError("INVALID_QUERY_FORMAT")))]
          ELSE IF ~parseIdentifiers(query).success
          THEN /\ pc' = [pc EXCEPT ![p] = "returned"]
               /\ loc' = [loc EXCEPT ![p] = frame]
               /\ res' = [res EXCEPT ![p] =
                            Err(mapErrorToResponse(parseIdentifiers(query).error))]
          ELSE IF repoKind = "eventSourced"
          THEN /\ pc' = [pc EXCEPT ![p] = "q_findExists"]
               /\ loc' = [loc EXCEPT ![p] =
                           Merge(frame, [existsResult |->
                             Ok(streamExists(createEnrollmentStreamId(
                                  query.studentId, query.courseId, query.semester)))])]
               /\ res' = [res EXCEPT ![p] = None]
          ELSE /\ pc' = [pc EXCEPT ![p] = "q_found"]
               /\ loc' = [loc EXCEPT ![p] =
                           Merge(frame, [enrollmentResult |->
                             findInMemory(query.studentId, query.courseId,
                                          query.semester)])]
               /\ res' = [res EXCEPT ![p] = None]
  /\ UNCHANGED <<storeVars, config, now>>
  /\ UNCHANGED otherVars

\* EventSourcedEnrollmentRepository.find after stream.exists()
QFindExists(p) ==
  /\ pc[p] = "q_findExists"
  /\ LET q == loc[p].query
     IN IF ~loc[p].existsResult.data
        THEN Goto(p, "q_found", [enrollmentResult |-> Ok(None)])
        ELSE Goto(p, "q_findEvents",
                  [eventsResult |->
                     Ok(getEvents(createEnrollmentStreamId(q.studentId, q.courseId,
                                                           q.semester), 1))])
  /\ UNCHANGED <<storeVars, config, now>>
  /\ UNCHANGED otherVars

\* EventSourcedEnrollmentRepository.find after stream.getAllEvents()
QFindEvents(p) ==
  /\ pc[p] = "q_findEvents"
  /\ Goto(p, "q_found", [enrollmentResult |->
                           reconstructEnrollmentFromEvents(loc[p].eventsResult.data)])
  /\ UNCHANGED <<storeVars, config, now>>
  /\ UNCHANGED otherVars

\* handle resumes with enrollmentResult
QFound(p) ==
  /\ pc[p] = "q_found"
  /\ LET r == loc[p].enrollmentResult
     IN IF ~r.success THEN Return(p, Err(mapErrorToResponse(r.error)))
        ELSE IF r.data = None THEN Return(p, Ok(None))
        ELSE Return(p, Ok(mapEnrollmentToResponse(r.data)))
  /\ UNCHANGED <<storeVars, config, now>>
  /\ UNCHANGED otherVars

InitRepo ==
  /\ events = <<>>
  /\ snapshots = <<>>
  /\ metadata = <<>>
  /\ config \in [snapshotEnabled : {FALSE}, snapshotInterval : SnapshotIntervals,
                 allowDuplicateEnrollment : {FALSE}, maxCoursesPerSemester : {8}]
  /\ now = 0
  /\ pc = [p \in Procs |-> "idle"]
  /\ loc = [p \in Procs |-> NoLoc]
  /\ res = [p \in Procs |-> None]
  /\ recEvents = <<>>
  /\ recResult = None
  /\ fnArgs = None
  /\ fnResult = None
  /\ repoKind \in RepoKinds
  /\ enrollments = <<>>
  /\ repoEvents = <<>>
  /\ published = <<>>
  /\ notified = <<>>
  /\ students = <<>>
  /\ courses = <<>>
  /\ services = "mock"

NextRepo ==
  \/ \E p \in Procs : SaveCall(p)
  \/ \E p \in Procs : AppendCheck(p)
  \/ \E p \in Procs : AppendSnapshot(p)
  \/ \E p \in Procs : AppendReturn(p)
  \/ \E p \in Procs : SaveCache(p)
  \/ \E p \in Procs : QueryCall(p)
  \/ \E p \in Procs : QFindExists(p)
  \/ \E p \in Procs : QFindEvents(p)
  \/ \E p \in Procs : QFound(p)
  \/ \E p \in Procs : Resume(p)

SpecRepo == InitRepo /\ [][NextRepo]_vars

\* clear() of InMemoryEnrollmentRepository: it empties the two maps of the
\* repository and leaves the event store of the event-store mode alone
Clear(p) ==
  /\ pc[p] = "idle"
  /\ repoKind \in {"memory", "memoryEventStore"}
  /\ pc' = [pc EXCEPT ![p] = "returned"]
  /\ loc' = [loc EXCEPT ![p] = [op |-> "clear"]]
  /\ res' = [res EXCEPT ![p] = Ok(None)]
  /\ enrollments' = <<>>
  /\ repoEvents' = <<>>
  /\ UNCHANGED <<storeVars, config, now, repoKind>>
  /\ UNCHANGED <<recVars, serviceVars>>

NextClear ==
  \/ NextRepo
  \/ \E p \in Procs : Clear(p)

SpecClear == InitRepo /\ [][NextClear]_vars

\* C11: a save that has returned succeeded exactly when the version stored
\* for the aggregate at the time of the call was state.version - 1, and
\* otherwise failed with ConcurrencyError{expectedVersion = state.version - 1,
\* actualVersion = that stored version}.
C11_SaveChecksVersion ==
  \A p \in Procs :
    (loc[p].op = "save" /\ pc[p] = "returned")
    => LET expected == loc[p].enrollment.version - 1
           actual == loc[p].storedVersion
       IN /\ res[p].success <=> actual = expected
          /\ ~res[p].success
             => /\ res[p].error.type = "ConcurrencyError"
                /\ res[p].error.expectedVersion = expected
                /\ res[p].error.actualVersion = actual

\* =====================================================================
\* Claims about the command handler (checked under SpecCmd)
\* =====================================================================

\* the command of caller p has returned
Handled(p) == loc[p].op = "handle" /\ pc[p] = "returned"

CommandStreamId(p) ==
  createEnrollmentStreamId(loc[p].command.studentId, loc[p].command.courseId,
                           loc[p].command.semester)

\* C2: of two RequestEnrollment commands for the same identity triple that
\* have both returned, at most one got a success response and the other one
\* was rejected with the duplicate error or a ConcurrencyError; and no stream
\* ever holds two version-1 events.
C2_OneRequestWins ==
  /\ \A s \in DOMAIN events :
       Cardinality({i \in DOMAIN events[s] : events[s][i].version = 1}) <= 1
  /\ \A p, q \in Procs :
       (p # q /\ Handled(p) /\ Handled(q) /\ loc[p].command = loc[q].command
        /\ res[p].success)
       => /\ ~res[q].success
          /\ res[q].error.code \in {"DUPLICATE_ENROLLMENT", "CONCURRENCY_ERROR"}

\* C7: once a command has been accepted and its event is the one event of
\* the stream, reading the stream back and reconstructing gives exactly the
\* state requestEnrollment produced and handed to save, requestedAt and
\* version included.
C7_RoundTrip ==
  \A p \in Procs :
    (Handled(p) /\ res[p].success /\ repoKind # "memory"
     /\ Len(StreamEvents(CommandStreamId(p))) = 1)
    => reconstructEnrollmentFromEvents(getEvents(CommandStreamId(p), 1))
         = Ok(loc[p].enrollment)

\* C12: the handler's steps run in the order Validate, CheckPrerequisites,
\* CheckDuplicate, Mutate, Persist, Publish, Notify, Respond: save is entered
\* only from the step after the enrollment-limit check, with a valid command
\* and every earlier check successful; an event is published only by a
\* command whose save has returned success; a notification is sent only
\* for an event already published by its command; a success response is
\* returned only after the notification.
C12_StepOrder ==
  [][\A p \in Procs :
       /\ (pc'[p] = "append_version" /\ pc[p] # "append_version")
          => pc[p] = "h_limit"
       /\ (pc[p] = "h_limit" /\ pc'[p] \in {"append_version", "h_saved"})
          => /\ RequestEnrollmentCommandSchema(loc[p].command)
             /\ loc[p].prerequisiteCheck.success
             /\ loc[p].duplicateCheck.success
             /\ loc[p].enrollmentLimitCheck.success
             /\ "enrollment" \in DOMAIN loc'[p]
       /\ (pc'[p] = "h_published" /\ pc[p] # "h_published")
          => /\ pc[p] = "h_saved"
             /\ loc[p].saveResult.success
       /\ (pc[p] # "h_published" /\ pc'[p] = pc[p])
          => \/ notified' = notified
             \/ \E q \in Procs : pc[q] = "h_published" /\ pc'[q] = "h_notified"
       /\ (pc'[p] = "h_notified" /\ pc[p] # "h_notified")
          => /\ pc[p] = "h_published"
             /\ loc[p].saveResult.success
             /\ "publishResult" \in DOMAIN loc[p]
       /\ (published' # published)
          => \E q \in Procs : pc[q] = "h_saved" /\ pc'[q] = "h_published"
       /\ (notified' # notified)
          => \E q \in Procs : pc[q] = "h_published" /\ pc'[q] = "h_notified"
       /\ (loc[p].op = "handle" /\ pc[p] # "returned" /\ pc'[p] = "returned"
           /\ res'[p].success)
          => pc[p] = "h_notified"
  ]_vars

\* a save has failed for one command while another was published and notified
C12_Witness ==
  \E p, q \in Procs :
    /\ Handled(p) /\ res[p].success
    /\ Len(published) > 0 /\ Len(notified) > 0
    /\ Handled(q) /\ ~res[q].success /\ "saveResult" \in DOMAIN loc[q]

\* the command of p has stored its event and is on its way to the response
Committed(p) ==
  /\ loc[p].op = "handle"
  /\ \/ pc[p] \in {"append_metadata", "append_snapshot", "h_published", "h_notified"}
     \/ pc[p] \in {"h_cache", "h_saved"} /\ loc[p].saveResult.success

\* C13: a command that returns an error response has changed nothing: every
\* step that changes the event store, the repository, the published events
\* or the notifications is a step of a command that has just stored or had
\* already stored its event, and such a command never returns an error.
C13_ErrorsLeaveNoTrace ==
  [][/\ (<<events, metadata, snapshots, enrollments, repoEvents, published,
           notified>>' #
         <<events, metadata, snapshots, enrollments, repoEvents, published, notified>>)
        => \E p \in Procs :
             /\ pc'[p] # pc[p]
             /\ Committed(p)' \/ (Committed(p) /\ pc'[p] = "returned")
     /\ \A p \in Procs :
          Committed(p)
          => /\ pc'[p] = "returned" => res'[p].success
             /\ pc'[p] # "returned" => Committed(p)'
     /\ \A p \in Procs :
          (loc[p].op = "handle" /\ pc[p] # "returned" /\ pc'[p] = "returned"
           /\ ~res'[p].success)
          => /\ ~Committed(p)
             /\ UNCHANGED <<events, metadata, snapshots, enrollments, repoEvents,
                            published, notified>>
  ]_vars

\* error responses of every kind have been returned: a rejected save and a
\* missing student at the same time, with another command's event stored
C13_Witness ==
  \E p, q \in Procs :
    /\ Handled(p) /\ ~res[p].success /\ res[p].error.code = "CONCURRENCY_ERROR"
    /\ Handled(q) /\ ~res[q].success /\ res[q].error.code = "STUDENT_NOT_FOUND"
    /\ Stored + Cardinality(DOMAIN enrollments) > 0

\* the events published for the triple of command c
PublishedFor(c) ==
  {i \in DOMAIN published :
     /\ published[i].events[1].studentId = c.studentId
     /\ published[i].events[1].courseId = c.courseId
     /\ published[i].events[1].data.semester = c.semester}

\* what is stored for the triple of command c: the stream's events for the
\* event-store-backed repositories, the repository's own events otherwise
StoredFor(c) ==
  IF repoKind = "memory"
  THEN LET aggregateId == generateAggregateId(c.studentId, c.courseId, c.semester)
       IN IF aggregateId \in DOMAIN repoEvents THEN Len(repoEvents[aggregateId]) ELSE 0
  ELSE Len(StreamEvents(createEnrollmentStreamId(c.studentId, c.courseId, c.semester)))

\* C14: with duplicates not allowed, a command that was started when a
\* success response for the same triple had already been returned is
\* rejected with the business-rule error DUPLICATE_ENROLLMENT before it
\* reaches requestEnrollment or save, and one event is stored and one event
\* is published for the triple.
C14_LaterRequestIsDuplicate ==
  \A p \in Procs :
    (Handled(p) /\ loc[p].startedAfterSuccess /\ ~config.allowDuplicateEnrollment)
    => /\ ~res[p].success
       /\ res[p].error.type = "BusinessRuleError"
       /\ res[p].error.code = "DUPLICATE_ENROLLMENT"
       /\ "enrollment" \notin DOMAIN loc[p]
       /\ Cardinality(PublishedFor(loc[p].command)) = 1
       /\ StoredFor(loc[p].command) = 1

\* the event of p's command is stored where its repository stores events
EventIsStored(p) ==
  LET c == loc[p].command
      aggregateId == generateAggregateId(c.studentId, c.courseId, c.semester)
  IN IF repoKind = "memory"
     THEN /\ aggregateId \in DOMAIN repoEvents
          /\ loc[p].domainEvent \in Range(repoEvents[aggregateId])
     ELSE loc[p].domainEvent \in Range(getEvents(CommandStreamId(p), 1))

\* C15: publication is best-effort: a command that has got as far as publish
\* (its save succeeded) keeps its event stored and ends in the success
\* response for the saved state, whether publish and notify succeed or fail.
C15_PublishIsBestEffort ==
  \A p \in Procs :
    (loc[p].op = "handle" /\ "publishResult" \in DOMAIN loc[p])
    => /\ EventIsStored(p)
       /\ pc[p] = "returned"
          => /\ res[p].success
             /\ res[p].data = mapEnrollmentToResponse(loc[p].enrollment)

\* a command has returned after both its publish and its notify failed
C15_Witness ==
  \E p \in Procs :
    /\ Handled(p) /\ "notifyResult" \in DOMAIN loc[p]
    /\ ~loc[p].publishResult.success /\ ~loc[p].notifyResult.success
    /\ res[p].success /\ EventIsStored(p)
    /\ published = <<>> /\ notified = <<>>

\* whether the lookup of p's query found something stored for the triple
FoundStored(p) ==
  IF repoKind = "eventSourced" THEN loc[p].existsResult.data
  ELSE loc[p].enrollmentResult.data # None

\* C16: the query handler is a pure read: no step of a query changes the
\* event store, the repository, the published events or the notifications;
\* and a well-formed query returns null when its lookup found nothing stored
\* for the triple, and otherwise the projection with the query's identity,
\* status requested and the version of the state the repository returned.
C16_QueryIsPureRead ==
  [][\A p \in Procs :
       (loc'[p].op = "query" /\ pc'[p] # pc[p])
       => /\ UNCHANGED <<events, snapshots, metadata, enrollments, repoEvents,
                         published, notified>>
          /\ (pc[p] = "q_found" /\ pc'[p] = "returned")
             => IF ~FoundStored(p) THEN res'[p] = Ok(None)
                ELSE /\ res'[p].success
                     /\ res'[p].data # None
                     /\ res'[p].data.studentId = loc[p].query.studentId
                     /\ res'[p].data.courseId = loc[p].query.courseId
                     /\ res'[p].data.semester = loc[p].query.semester
                     /\ res'[p].data.status = "requested"
                     /\ res'[p].data.version = loc[p].enrollmentResult.data.version
  ]_vars

\* what the store holds for stream s: events, metadata and snapshot
MetadataOf(m, s) == IF s \in DOMAIN m THEN m[s] ELSE None

SnapshotOf(sn, s) ==
  IF SnapshotKey("Enrollment", s) \in DOMAIN sn
  THEN sn[SnapshotKey("Enrollment", s)] ELSE None

EventsOf(ev, s) == IF s \in DOMAIN ev THEN ev[s] ELSE <<>>

\* C17: streams are independent: a step changes the events, the current
\* version, the metadata or the snapshot of a stream only if it is a step of
\* a command for that stream's triple (whether its append succeeds or
\* fails); and a command for a stored student whose own triple has nothing
\* stored is never rejected, whatever commands for other triples do.
C17_StreamsAreIndependent ==
  [][/\ \A s \in StreamIds :
          (\/ EventsOf(events', s) # EventsOf(events, s)
           \/ MaxVersion(EventsOf(events', s)) # MaxVersion(EventsOf(events, s))
           \/ MetadataOf(metadata', s) # MetadataOf(metadata, s)
           \/ SnapshotOf(snapshots', s) # SnapshotOf(snapshots, s))
          => \E p \in Procs :
               /\ pc'[p] # pc[p]
               /\ loc[p].op = "handle"
               /\ CommandStreamId(p) = s
     /\ \A p \in Procs :
          (/\ loc[p].op = "handle" /\ pc[p] # "returned" /\ pc'[p] = "returned"
           /\ loc[p].command.studentId \in DOMAIN students
           /\ ~res'[p].success)
          => EventsOf(events, CommandStreamId(p)) # <<>>
  ]_vars

\* two commands for different triples have both succeeded and each of the
\* two streams holds its one event, its metadata and its snapshot
C17_Witness ==
  \E p, q \in Procs :
    /\ Handled(p) /\ Handled(q) /\ res[p].success /\ res[q].success
    /\ loc[p].command # loc[q].command
    /\ \A s \in {CommandStreamId(p), CommandStreamId(q)} :
         /\ Len(EventsOf(events, s)) = 1
         /\ MetadataOf(metadata, s) # None
         /\ SnapshotOf(snapshots, s) # None

\* ================================================================
\* claims on the event store's reads, metadata and snapshots
\* ================================================================

\* how many stored events of the stream are the event e with a version from
\* fromVersion on, and how many elements of list are e
StoredCount(streamEvents, fromVersion, e) ==
  Cardinality({i \in 1..Len(streamEvents) :
                 streamEvents[i].version >= fromVersion /\ streamEvents[i].event = e})

ListCount(list, e) == Cardinality({i \in 1..Len(list) : list[i] = e})

\* C21: getEvents(streamId, fromVersion) returns exactly the stored events of
\* the stream with version >= fromVersion (all of them for fromVersion 1), in
\* ascending version order, the empty list for a stream that does not exist,
\* and changes nothing in the store.
C21_GetEvents ==
  [][\A p \in Procs :
       (pc[p] = "idle" /\ pc'[p] = "returned" /\ loc'[p].op = "getEvents") =>
         LET streamEvents == StreamEvents(loc'[p].streamId)
             fromVersion == loc'[p].fromVersion
             list == res'[p].data
         IN /\ res'[p].success
            /\ Len(list) = Cardinality({i \in 1..Len(streamEvents) :
                                          streamEvents[i].version >= fromVersion})
            /\ \A i \in 1..Len(streamEvents) :
                 ListCount(list, streamEvents[i].event)
                   = StoredCount(streamEvents, fromVersion, streamEvents[i].event)
            /\ \A i, j \in 1..Len(list) : i < j => list[i].version <= list[j].version
            /\ fromVersion = 1 => Len(list) = Len(streamEvents)
            /\ loc'[p].streamId \notin DOMAIN events => list = <<>>
            /\ events' = events
            /\ snapshots' = snapshots
            /\ metadata' = metadata
  ]_vars

\* getEvents from version 2 has returned some but not all events of a stream
C21_Witness ==
  \E p \in Procs :
    /\ pc[p] = "returned"
    /\ loc[p].op = "getEvents"
    /\ loc[p].fromVersion = 2
    /\ Len(res[p].data) >= 1
    /\ Len(StreamEvents(loc[p].streamId)) > Len(res[p].data)

\* C22: in every state of the event store getCurrentVersion(streamId) is 0
\* exactly for the streams that hold no event, and streamExists(streamId) is
\* true exactly when getCurrentVersion(streamId) > 0; an append of an empty
\* batch does not make a stream exist.
C22_VersionZeroIffEmpty ==
  \A s \in StoreStreamIds :
    /\ getCurrentVersion(s) = 0 <=> (s \notin DOMAIN events \/ Len(events[s]) = 0)
    /\ streamExists(s) <=> getCurrentVersion(s) > 0

\* an append of an empty batch has succeeded on a stream that holds no event:
\* the store has an entry for the stream, and the stream does not exist
C22_Witness ==
  \E p \in Procs :
    /\ pc[p] = "returned"
    /\ loc[p].op = "append"
    /\ res[p].success
    /\ loc[p].events = <<>>
    /\ loc[p].streamId \in DOMAIN events
    /\ Len(events[loc[p].streamId]) = 0
    /\ ~streamExists(loc[p].streamId)

\* ================================================================
\* claims on the handler's prerequisite checks and on save
\* ================================================================

\* the collaborator results checkPrerequisites has obtained so far
PrerequisiteOrder ==
  <<"studentExistsResult", "studentStatusResult", "courseExistsResult",
    "courseOfferedResult", "capacityResult">>

Queried(p) == DOMAIN loc[p] \cap Range(PrerequisiteOrder)

\* the position in the order of the first check that fails for command c on
\* the data the student and course repositories hold, 0 when none fails
FirstFailure(c) ==
  IF c.studentId \notin DOMAIN students \/ ~students[c.studentId].exists THEN 1
  ELSE IF students[c.studentId].status # "active" THEN 2
  ELSE IF c.courseId \notin DOMAIN courses \/ ~courses[c.courseId].exists THEN 3
  ELSE IF \/ c.semester \notin DOMAIN courses[c.courseId].offerings
          \/ ~courses[c.courseId].offerings[c.semester].offered THEN 4
  ELSE IF courses[c.courseId].offerings[c.semester].currentEnrollment
            >= courses[c.courseId].offerings[c.semester].maxCapacity THEN 5
  ELSE 0

PrerequisiteCodes ==
  <<"STUDENT_NOT_FOUND", "STUDENT_NOT_ACTIVE", "COURSE_NOT_FOUND",
    "COURSE_NOT_OFFERED", "COURSE_CAPACITY_EXCEEDED">>

\* C23: prerequisite checks run in the order student exists, student active,
\* course exists, course offered, capacity: the collaborators queried so far
\* are always the first n of that order; once checkPrerequisites has ended,
\* they are exactly those up to the first check that fails, its result is the
\* business-rule error with that check's code (success when none fails), and
\* the error response of the command carries that code.
C23_PrerequisiteOrder ==
  \A p \in Procs :
    (loc[p].op = "handle" /\ "studentExistsResult" \in DOMAIN loc[p]) =>
      LET n == FirstFailure(loc[p].command)
      IN /\ \E k \in 1..5 : Queried(p) = {PrerequisiteOrder[i] : i \in 1..k}
         /\ "prerequisiteCheck" \in DOMAIN loc[p] =>
              IF n = 0
              THEN /\ loc[p].prerequisiteCheck.success
                   /\ Queried(p) = Range(PrerequisiteOrder)
              ELSE /\ ~loc[p].prerequisiteCheck.success
                   /\ loc[p].prerequisiteCheck.error.type = "BusinessRuleError"
                   /\ loc[p].prerequisiteCheck.error.code = PrerequisiteCodes[n]
                   /\ Queried(p) = {PrerequisiteOrder[i] : i \in 1..n}
                   /\ pc[p] = "returned" =>
                        /\ ~res[p].success
                        /\ res[p].error.code = PrerequisiteCodes[n]

\* a command has been rejected with STUDENT_NOT_ACTIVE, with two collaborators
\* queried, although the course does not exist either
C23_Witness ==
  \E p \in Procs :
    /\ pc[p] = "returned" /\ loc[p].op = "handle"
    /\ ~res[p].success /\ res[p].error.code = "STUDENT_NOT_ACTIVE"
    /\ Cardinality(Queried(p)) = 2
    /\ courses = <<>>

\* C24: the handler does not retry: a command enters repository.save only
\* when it holds no result of an earlier save; and when save has returned a
\* ConcurrencyError the next step of the command returns an error response of
\* type ConcurrencyError with the same code, expectedVersion and
\* actualVersion, and neither that step nor any earlier one of the command
\* has published or notified.
C24_NoRetry ==
  [][\A p \in Procs :
       loc[p].op = "handle" =>
         /\ (pc[p] = "h_limit" /\ pc'[p] \in {"append_version", "h_saved"})
              => "saveResult" \notin DOMAIN loc[p]
         /\ (/\ pc[p] = "h_saved" /\ pc'[p] # pc[p]
             /\ ~loc[p].saveResult.success
             /\ loc[p].saveResult.error.type = "ConcurrencyError")
              => /\ pc'[p] = "returned"
                 /\ ~res'[p].success
                 /\ res'[p].error.type = "ConcurrencyError"
                 /\ res'[p].error.code = loc[p].saveResult.error.code
                 /\ res'[p].error.expectedVersion
                      = loc[p].saveResult.error.expectedVersion
                 /\ res'[p].error.actualVersion = loc[p].saveResult.error.actualVersion
                 /\ published' = published
                 /\ notified' = notified
                 /\ DOMAIN loc'[p] \cap {"publishResult", "notifyResult"} = {}
  ]_vars

\* a command whose save returned a ConcurrencyError has returned it
C24_Witness ==
  \E p \in Procs :
    /\ pc[p] = "returned" /\ loc[p].op = "handle"
    /\ "saveResult" \in DOMAIN loc[p]
    /\ ~loc[p].saveResult.success
    /\ res[p].error.type = "ConcurrencyError"
    /\ res[p].error.expectedVersion = 0
    /\ res[p].error.actualVersion = 1

\* getEnrollmentCount() of the in-memory repository; the streams that hold
\* events for the event-sourced one
StoredEnrollments ==
  IF repoKind = "eventSourced"
  THEN Cardinality({s \in DOMAIN events : Len(events[s]) > 0})
  ELSE Cardinality(DOMAIN enrollments)

\* getEventStream(studentId, courseId, semester) of the repository
EventStreamOf(c) ==
  IF repoKind = "memory"
  THEN LET aggregateId == generateAggregateId(c.studentId, c.courseId, c.semester)
       IN IF aggregateId \in DOMAIN repoEvents THEN repoEvents[aggregateId] ELSE <<>>
  ELSE getEvents(createEnrollmentStreamId(c.studentId, c.courseId, c.semester), 1)

\* C25: after commands handled one after another data and events are
\* consistent: as many published events as stored enrollments and as
\* notifications, the i-th notification carries the i-th published event,
\* every command that got a success response has exactly one published event,
\* one notification and one stored event, and the event stream of its triple
\* holds exactly one event, of type EnrollmentRequested.
C25_DataAndEventsAgree ==
  Quiescent =>
    /\ Len(published) = StoredEnrollments
    /\ Len(notified) = StoredEnrollments
    /\ \A i \in 1..Len(published) :
         /\ Len(published[i].events) = 1
         /\ notified[i].event = published[i].events[1]
    /\ \A p \in Procs :
         (pc[p] = "returned" /\ loc[p].op = "handle" /\ res[p].success) =>
           /\ Cardinality({i \in 1..Len(published) :
                             published[i].events = <<loc[p].domainEvent>>}) = 1
           /\ Cardinality({i \in 1..Len(notified) :
                             notified[i].event = loc[p].domainEvent}) = 1
           /\ Len(EventStreamOf(loc[p].command)) = 1
           /\ EventStreamOf(loc[p].command)[1].eventType = "EnrollmentRequested"
           /\ EventStreamOf(loc[p].command)[1] = loc[p].domainEvent

\* two commands for different triples have been accepted one after the
\* other, and a third, for one of these triples, has been rejected
C25_Witness ==
  /\ Quiescent
  /\ Len(published) = 2
  /\ StoredEnrollments = 2
  /\ \E p \in Procs :
       /\ pc[p] = "returned" /\ loc[p].op = "handle"
       /\ ~res[p].success /\ res[p].error.code = "DUPLICATE_ENROLLMENT"

\* C26: stream metadata is updated atomically with the append: every step
\* of an append that changes the events of a stream leaves, for that stream,
\* metadata with eventCount equal to the number of stored events,
\* firstEventVersion 1 and lastEventVersion equal to getCurrentVersion, so
\* that lastEventVersion - firstEventVersion + 1 = eventCount; and an append
\* never changes the createdAt of metadata that exists.
C26_MetadataWithAppend ==
  [][\A p \in Procs :
       (pc[p] = "append_version" /\ pc'[p] # pc[p]) =>
         LET s == loc[p].streamId
         IN /\ (s \in DOMAIN events' /\ Len(events'[s]) > 0 /\ events' # events) =>
                 /\ s \in DOMAIN metadata'
                 /\ metadata'[s].eventCount = Len(events'[s])
                 /\ metadata'[s].firstEventVersion = 1
                 /\ metadata'[s].lastEventVersion = MaxVersion(events'[s])
                 /\ metadata'[s].lastEventVersion - metadata'[s].firstEventVersion + 1
                      = metadata'[s].eventCount
            /\ s \in DOMAIN metadata => metadata'[s].createdAt = metadata[s].createdAt
  ]_vars

C28_EmptyReconstruct ==
  (recEvents = <<>> /\ recResult # None) =>
    /\ recResult.success
    /\ recResult.data = None
    /\ "error" \notin DOMAIN recResult
    /\ reconstructEnrollmentFromEvents(recEvents) = recResult

\* the empty list has been reconstructed
C28_Witness == recEvents = <<>> /\ recResult # None /\ recResult.success

\* ----------------- claims on the in-memory repository's save and clear
\* C29: in the default (non event-store) mode, a save for a triple whose
\* stored enrollment has a version >= the new enrollment's version fails
\* with ConcurrencyError{expectedVersion = the new version, actualVersion =
\* the stored version}, and leaves the stored enrollments and the event
\* lists unchanged.
C29_InMemoryConflict ==
  [][\A p \in Procs :
       (/\ repoKind = "memory"
        /\ pc[p] = "idle"
        /\ pc'[p] = "returned"
        /\ loc'[p].op = "save"
        /\ LET e == loc'[p].enrollment
               aggregateId == generateAggregateId(e.studentId, e.courseId, e.semester)
           IN /\ aggregateId \in DOMAIN enrollments
              /\ enrollments[aggregateId].version >= e.version)
       => LET e == loc'[p].enrollment
              aggregateId == generateAggregateId(e.studentId, e.courseId, e.semester)
          IN /\ ~res'[p].success
             /\ res'[p].error.type = "ConcurrencyError"
             /\ res'[p].error.expectedVersion = e.version
             /\ res'[p].error.actualVersion = enrollments[aggregateId].version
             /\ UNCHANGED <<enrollments, repoEvents>>]_vars

\* a freshly created enrollment saved a second time: versions 1 and 1
C29_Witness ==
  /\ repoKind = "memory"
  /\ \E p \in Procs :
       /\ pc[p] = "returned"
       /\ loc[p].op = "save"
       /\ loc[p].enrollment.version = 1
       /\ ~res[p].success
       /\ res[p].error.type = "ConcurrencyError"
       /\ res[p].error.expectedVersion = 1
       /\ res[p].error.actualVersion = 1
       /\ LET e == loc[p].enrollment
              aggregateId == generateAggregateId(e.studentId, e.courseId, e.semester)
          IN /\ aggregateId \in DOMAIN enrollments
             /\ enrollments[aggregateId].version = 1
             /\ Len(repoEvents[aggregateId]) = 1

\* C30: clear() resets the repository to its initial state in both modes:
\* right after a clear() called while no save or find is in flight,
\* getEnrollmentCount and getEventCount are 0, find returns
\* null and getEventStream an empty list for every triple, and the version
\* stored for every triple is 0, so that saving a freshly created version-1
\* enrollment succeeds.
C30_ClearResets ==
  [][\A p \in Procs :
       (/\ pc[p] = "idle" /\ pc'[p] = "returned" /\ loc'[p].op = "clear"
        /\ \A q \in Procs : pc[q] \in {"idle", "returned"})
       => /\ Cardinality(DOMAIN enrollments') = 0
          /\ \A k \in DOMAIN repoEvents' : Len(repoEvents'[k]) = 0
          /\ \A id \in Identities :
               LET aggregateId == generateAggregateId(id.studentId, id.courseId,
                                                      id.semester)
                   streamEvents == IF StreamIdOf(id) \in DOMAIN events'
                                   THEN events'[StreamIdOf(id)] ELSE <<>>
               IN /\ aggregateId \notin DOMAIN enrollments'
                  /\ IF repoKind = "memory"
                     THEN aggregateId \notin DOMAIN repoEvents'
                     ELSE /\ EventsFrom(streamEvents, 1) = <<>>
                          /\ MaxVersion(streamEvents) = 0]_vars

\* =====================================================================
\* Claims on the collaborators, the enrollment limit and the configuration
\* =====================================================================
\* C31: the command handler only reads the student and course repositories:
\* no step changes what they report, and with commands handled one after
\* another a command of an eligible student for a course whose reported
\* current enrollment is below its maximum fails only as a duplicate of an
\* enrollment already stored for its triple - never on capacity, however
\* many enrollments were accepted before.
C31_CollaboratorsReadOnly ==
  [][/\ students' = students
     /\ courses' = courses
     /\ \A p \in Procs :
          (/\ pc[p] # "returned" /\ pc'[p] = "returned"
           /\ loc'[p].op = "handle"
           /\ loc'[p].command.studentId \in StudentIds
           /\ LET c == loc'[p].command
                  o == courses[c.courseId].offerings[c.semester]
              IN o.currentEnrollment < o.maxCapacity
           /\ ~res'[p].success)
          => /\ res'[p].error.code = "DUPLICATE_ENROLLMENT"
             /\ StoredFor(loc'[p].command) > 0]_vars

\* more accepted enrollments for the course than its maximum capacity
C31_Witness ==
  /\ Quiescent
  /\ \A c \in CourseIds, s \in Semesters :
       courses[c].offerings[s].currentEnrollment < courses[c].offerings[s].maxCapacity
  /\ Len(published) > SmallCapacity
  /\ \A i \in DOMAIN published : \A j \in DOMAIN published :
       i # j => published[i].events[1].studentId # published[j].events[1].studentId
  /\ \E p \in Procs : pc[p] = "returned" /\ loc[p].op = "handle" /\ res[p].success

\* the accepted enrollments of a student in a semester: the courses for
\* whose triple an event is stored
AcceptedCourses(studentId, semester) ==
  {c \in DOMAIN courses :
     StoredFor([studentId |-> studentId, courseId |-> c, semester |-> semester]) > 0}

\* C32: no student holds more than maxCoursesPerSemester accepted
\* enrollments in one semester.
C32_EnrollmentLimit ==
  \A s \in StudentIds, sem \in Semesters :
    Cardinality(AcceptedCourses(s, sem)) <= config.maxCoursesPerSemester

\* C33: requestEnrollment accepts a semester of year y exactly when
\* currentYear - pastYears <= y <= currentYear + futureYears for the
\* validation.allowedSemesterRange of the configuration in effect.
C33_ConfiguredSemesterRange ==
  (fnResult # None /\ "allowedSemesterRange" \in DOMAIN fnArgs) =>
    (Succeeded(fnResult) <=>
       /\ SemesterYear(fnArgs.semester) >= CurrentYear - fnArgs.allowedSemesterRange.pastYears
       /\ SemesterYear(fnArgs.semester) <= CurrentYear + fnArgs.allowedSemesterRange.futureYears)

\* the value the precedence "environment variable, then preset of the
\* environment, then default" gives the leaf k
ByPrecedence(env, k) ==
  LET supplied == loadFromEnvironment(env)
      environment == IF "environment" \in DOMAIN supplied THEN supplied.environment
                     ELSE DEFAULT_ENROLLMENT_CONFIG.environment
      preset == getEnvironmentPreset(environment)
  IN IF k \in DOMAIN supplied THEN supplied[k]
     ELSE IF k \in DOMAIN preset THEN preset[k]
     ELSE DEFAULT_ENROLLMENT_CONFIG[k]

\* C34: in the loaded configuration a value supplied by an environment
\* variable takes priority over the preset of the environment, which takes
\* priority over the defaults.
C34_ConfigPrecedence ==
  (fnResult # None /\ "env" \in DOMAIN fnArgs) =>
    /\ fnResult.success
    /\ \A k \in DOMAIN DEFAULT_ENROLLMENT_CONFIG :
         fnResult.config[k] = ByPrecedence(fnArgs.env, k)

\* C35: with allowDuplicateEnrollment true the duplicate check makes no
\* repository lookup, and with commands handled one after another a command
\* for a triple that was already accepted reaches save, fails with
\* ConcurrencyError, and the triple keeps one stored and one published event.
C35_DuplicatesStoppedBySave ==
  config.allowDuplicateEnrollment =>
    /\ \A p \in Procs :
         /\ pc[p] \notin {"h_findExists", "h_findEvents", "h_found"}
         /\ loc[p].op = "handle" =>
              DOMAIN loc[p] \cap {"existsResult", "existingEnrollmentResult"} = {}
         /\ (pc[p] = "returned" /\ loc[p].op = "handle" /\ loc[p].startedAfterSuccess)
            => /\ "saveResult" \in DOMAIN loc[p]
               /\ ~loc[p].saveResult.success
               /\ ~res[p].success
               /\ res[p].error.type = "ConcurrencyError"
    /\ \A c \in Commands :
         /\ StoredFor(c) <= 1
         /\ Cardinality(PublishedFor(c)) <= 1

\* the second command for an accepted triple has failed in save
C35_Witness ==
  /\ config.allowDuplicateEnrollment
  /\ \E p \in Procs :
       /\ pc[p] = "returned" /\ loc[p].op = "handle" /\ loc[p].startedAfterSuccess
       /\ ~res[p].success
       /\ res[p].error.type = "ConcurrencyError"
       /\ StoredFor(loc[p].command) = 1
       /\ Cardinality(PublishedFor(loc[p].command)) = 1

\* the rearrangements of the positions of a list of n events
Rearrangements(n) == {f \in [1..n -> 1..n] : \A i, j \in 1..n : f[i] = f[j] => i = j}

\* C36: reconstructEnrollmentFromEvents gives every rearrangement of its
\* input list the result it gives the list, and leaves the list unmodified.
C36_OrderIndependent ==
  [][recResult' # None =>
       /\ recEvents' = recEvents
       /\ \A f \in Rearrangements(Len(recEvents)) :
            reconstructEnrollmentFromEvents([i \in 1..Len(recEvents) |-> recEvents[f[i]]])
              = recResult']_vars

\* a well-formed stream handed over in descending order has been reconstructed
C36_Witness ==
  /\ Len(recEvents) >= 2
  /\ \A i \in 1..Len(recEvents) : recEvents[i].version = Len(recEvents) + 1 - i
  /\ recResult # None
  /\ recResult.success
  /\ recResult.data # None
  /\ recResult.data.version = 1

\* =====================================================================
\* Claims on identity, retry and race
\* =====================================================================
\* the triple an event carries
TripleOf(e) == [studentId |-> e.studentId, courseId |-> e.courseId,
                semester |-> e.data.semester]

\* C37: every event stored in the stream of a triple carries that triple,
\* in the event store and in the in-memory repository, the state cached for
\* a triple has that triple, and the state a lookup found for a command has
\* the command's triple.
C37_IdentityPerStream ==
  /\ \A s \in DOMAIN events : \A i \in 1..Len(events[s]) :
       /\ events[s][i].streamId = s
       /\ StreamIdOf(TripleOf(events[s][i].event)) = s
  /\ \A k \in DOMAIN repoEvents : \A i \in 1..Len(repoEvents[k]) :
       LET t == TripleOf(repoEvents[k][i])
       IN generateAggregateId(t.studentId, t.courseId, t.semester) = k
  /\ \A k \in DOMAIN enrollments :
       generateAggregateId(enrollments[k].studentId, enrollments[k].courseId,
                           enrollments[k].semester) = k
  /\ \A p \in Procs :
       (/\ loc[p].op = "handle"
        /\ "existingEnrollmentResult" \in DOMAIN loc[p]
        /\ loc[p].existingEnrollmentResult.success
        /\ loc[p].existingEnrollmentResult.data # None)
       => LET c == loc[p].command
              found == loc[p].existingEnrollmentResult.data
          IN /\ found.studentId = c.studentId
             /\ found.courseId = c.courseId
             /\ found.semester = c.semester

\* two triples hold an accepted enrollment and a lookup has found one
C37_Witness ==
  /\ \A s \in StudentIds : \E c \in Commands : c.studentId = s /\ StoredFor(c) = 1
  /\ \E p \in Procs :
       /\ loc[p].op = "handle"
       /\ "existingEnrollmentResult" \in DOMAIN loc[p]
       /\ loc[p].existingEnrollmentResult.success
       /\ loc[p].existingEnrollmentResult.data # None

\* C38: retry with maxAttempts n >= 1 invokes the operation at most n times;
\* every result before the last one is a failure that shouldRetry accepts,
\* so nothing is invoked after a success or after a failure shouldRetry
\* rejects; and when it has returned, its result is the last result
\* obtained, which is a success, a failure shouldRetry rejects, or the
\* failure of the n-th attempt.
C38_RetryBounded ==
  \A p \in Procs : loc[p].op = "retry" =>
    LET results == loc[p].results
        n == loc[p].maxAttempts
    IN /\ loc[p].invoked <= n
       /\ Len(results) <= loc[p].invoked
       /\ \A i \in 1..(Len(results) - 1) :
            /\ ~results[i].success
            /\ shouldRetry(loc[p].shouldRetry, results[i].error)
       /\ pc[p] = "returned" =>
            /\ Len(results) = loc[p].invoked
            /\ res[p] = results[Len(results)]
            /\ \/ res[p].success
               \/ ~shouldRetry(loc[p].shouldRetry, res[p].error)
               \/ Len(results) = n

\* the n-th attempt failed with an error shouldRetry accepts, n > 1
C38_Witness ==
  \E p \in Procs :
    /\ loc[p].op = "retry"
    /\ pc[p] = "returned"
    /\ loc[p].maxAttempts > 1
    /\ loc[p].invoked = loc[p].maxAttempts
    /\ ~res[p].success
    /\ shouldRetry(loc[p].shouldRetry, res[p].error)

\* the operations of a race call that completed successfully
RaceSuccesses(p) ==
  {i \in DOMAIN loc[p].settled :
     loc[p].settled[i].status = "fulfilled" /\ loc[p].settled[i].value.success}

\* C39: race returns the result of the operation that completed successfully
\* earliest in time, and fails, with the list of all errors, only when every
\* operation failed.
C39_RaceFirstSuccess ==
  \A p \in Procs : (loc[p].op = "race" /\ pc[p] = "returned") =>
    IF RaceSuccesses(p) = {}
    THEN /\ ~res[p].success
         /\ Len(res[p].error) = loc[p].operations
    ELSE LET order == loc[p].order
             first == CHOOSE k \in 1..Len(order) :
                        /\ order[k] \in RaceSuccesses(p)
                        /\ \A j \in 1..(k - 1) : order[j] \notin RaceSuccesses(p)
         IN res[p] = loc[p].settled[order[first]].value

====
